---- MODULE Spec2Model ----
(***************************************************************************)
(* A model of two cores of bsuccinct-rs:                                   *)
(*   - ph: the fingerprinting-based minimal perfect hash function (FMPH),  *)
(*     its builder (src/ph/src/fmph/function.rs) and the key sets the      *)
(*     builder consumes (src/ph/src/fp/keyset.rs);                         *)
(*   - minimum_redundancy: the canonical Huffman coding of arbitrary       *)
(*     degree (src/minimum_redundancy/src/lib.rs).                         *)
(*                                                                         *)
(* Data representation.  A 64-bit word is the set of its 1-bit positions   *)
(* (a subset of 0..WordBits-1); a bit array (Box<[u64]>) is a sequence of  *)
(* words.  All indices stored in the state are 0-based, as in the source;  *)
(* sequence accesses add 1.  A hash value is a number in 0..HashRange-1,   *)
(* standing for the u64 range, so that map64_to_64 is computed by the      *)
(* source's formula with HashRange in place of 2^64.                       *)
(***************************************************************************)
EXTENDS Integers, Sequences, FiniteSets, TLC

\* ------------------------------------------------------------------ bounds

\* Largest number of input keys of a build.
MaxKeys == 3

\* Number of levels the model records; see the variable horizon.
MaxLevels == 3

\* Hash values range over 0..HashRange-1 (the source: 0..2^64-1).
HashRange == 64

\* Keys per segment of the SliceSourceWithRefs key sets (the source: 1<<16).
SegmentSize == 2

\* Largest number of values of a coding.
MaxValues == 5

\* Largest number of occurrences of a value.
MaxFreq == 3

\* Largest degree of the Huffman tree.
MaxDegree == 4

\* ------------------------------------------------------- program constants

\* Bits of a u64 word of a level array.
WordBits == 64

\* BuildConf::relative_level_size values tried: the default, and one that
\* makes a level of MaxKeys keys two words long.
RelativeLevelSizes == {100, 3200}

\* BuildConf::cache_threshold values tried: 0 disables caching, MaxKeys
\* caches every level but a first one of MaxKeys keys.
CacheThresholds == {0, MaxKeys}

\* CachedKeySet clone thresholds tried.
CloneThresholds == {2, MaxKeys + 1}

\* The number of retain calls made on a key set used outside a build.
MaxRetains == 3

\* BuildConf::relative_level_size below 100, and the default.
SmallRelativeLevelSizes == {1, 50, 99, 100}

\* The hash values the seeded hash family may return.
HashValues == {0, HashRange \div 2}

\* The keys: 1..MaxKeys may be input keys, OutsideKey never is.
OutsideKey == MaxKeys + 1
Universe == 1..OutsideKey

\* A level number that is no level.
NoLevel == 0 - 1

VARIABLES
    conf,                   \* BuildConf: relative_level_size, cache_threshold, use_multiple_threads
    num_threads,            \* rayon::current_num_threads()
    input,                  \* the input keys, in the order of the slice / iterator
    ks,                     \* the key set (keys: impl KeySet<K>)
    pc,                     \* position of with_conf_stats / build_levels
    input_size,             \* Builder::input_size
    use_multiple_threads,   \* Builder::use_multiple_threads
    arrays,                 \* Builder::arrays
    hash,                   \* hash[seed+1][k]: hash_builder.hash_one(k, seed), for the keys hashed so far
    lv,                     \* the level under construction (locals of build_levels and of the level builders)
    fn,                     \* the built Function: array.content, level_sizes
    probe,                  \* the last call of Function::get_stats
    live,                   \* history: the input keys that passed every retain filter so far
    placed,                 \* history: placed[k] is the level whose retain removed k, or NoLevel
    horizon                 \* "stop": the model stops after MaxLevels levels; "forget": later levels are built but not recorded

VARIABLES
    args,                   \* the arguments of Coding::from_sorted: degree, values, freq
    hpc,                    \* position of from_sorted
    fs,                     \* the locals of from_sorted, with freq as changed in place
    coding                  \* the Coding returned: values, internal_nodes_count, degree

VARIABLES
    codes_it,               \* the CodesIterator returned by coding.codes(): level_iterator, value_index, bits
    yielded,                \* history: the items codes_it.next() has returned, and whether it returned None
    levels_it,              \* the LevelIterator returned by coding.levels(): last_value_index, level_size, level
    levels_yielded,         \* history: the items levels_it.next() has returned, and whether it returned None
    decoder,                \* the Decoder returned by coding.decoder(): shift, first_leaf_nr, level_size, level
    consumed,               \* history: the calls of consume / consume_checked on decoder, with their results
    buff,                   \* the bytes Coding::write has written
    read_coding             \* the Coding that Coding::read has returned from buff

useVars == <<codes_it, yielded, levels_it, levels_yielded, decoder, consumed, buff, read_coding>>

codingVars == <<args, hpc, fs, coding, useVars>>

VARIABLES
    fn_buff,                \* the bytes Function::write has written
    read_fn                 \* the Function that read_with_hasher has returned from fn_buff

functionIoVars == <<fn_buff, read_fn>>

VARIABLES
    retains                 \* history: the retain calls made on ks outside a build, each
                            \* with its method, the keys its filter accepts and ks before it

keySetVars == <<retains>>

fmphVars == <<conf, num_threads, input, ks, pc, input_size, use_multiple_threads,
              arrays, hash, lv, fn, probe, live, placed, horizon, functionIoVars,
              keySetVars>>

\* ------------------------------------------------------- general helpers

Range(s) == {s[i] : i \in DOMAIN s}

RECURSIVE SumSeq(_)
SumSeq(s) == IF s = <<>> THEN 0 ELSE s[1] + SumSeq(Tail(s))

RECURSIVE Flatten(_)
Flatten(ss) == IF ss = <<>> THEN <<>> ELSE ss[1] \o Flatten(Tail(ss))

\* The increasing sequence of the numbers of a finite set of integers.
RECURSIVE SortedSeq(_)
SortedSeq(S) ==
    IF S = {} THEN <<>>
    ELSE LET m == CHOOSE x \in S : \A y \in S : x <= y
         IN <<m>> \o SortedSeq(S \ {m})

\* --------------------------------------------------- bitm and utils

ceiling_div(a, b) == (a + b - 1) \div b

ZeroArray(level_size_segments) == [w \in 1..level_size_segments |-> {}]

get_bit(a, i) == (i % WordBits) \in a[(i \div WordBits) + 1]

count_bit_ones(a) == SumSeq([w \in DOMAIN a |-> Cardinality(a[w])])

\* ArrayWithRank::rank(i): the number of 1-bits strictly before position i.
rank(content, i) ==
    SumSeq([w \in 1..(i \div WordBits) |-> Cardinality(content[w])])
    + Cardinality({b \in content[(i \div WordBits) + 1] : b < i % WordBits})

\* utils::map64_to_64(x, n) = (x as u128 * n as u128) >> 64.
map64_to_64(x, n) == (x * n) \div HashRange

\* ------------------------------------------------- fphash bit protocol

\* fphash_add_bit (the default, branchless build): set bit_index in result;
\* if it already was set, set it in collision.  rc is the pair of arrays.
fphash_add_bit(rc, bit_index) ==
    LET index == (bit_index \div WordBits) + 1
        mask  == {bit_index % WordBits}
    IN  [result    |-> [rc.result EXCEPT ![index] = @ \cup mask],
         collision |-> [rc.collision EXCEPT ![index] = @ \cup (rc.result[index] \cap mask)]]

\* A sweep that leaves the collided bits in place.
keep_collided(result, collision) == result

\* fphash_remove_collided: *r &= !c for every word.
fphash_remove_collided(result, collision) ==
    [w \in DOMAIN result |-> result[w] \ collision[w]]

\* index(key, hash, seed, level_size); hs is the hash function of the seed.
index(key, hs, level_size) == map64_to_64(hs[key], level_size)

\* Builder::build_array_for_indices_st: the fold of fphash_add_bit over
\* bit_indices, then fphash_remove_collided.
RECURSIVE AddBits(_, _)
AddBits(rc, bit_indices) ==
    IF bit_indices = <<>> THEN rc
    ELSE AddBits(fphash_add_bit(rc, Head(bit_indices)), Tail(bit_indices))

build_array_for_indices_st(bit_indices, level_size_segments) ==
    LET rc == AddBits([result |-> ZeroArray(level_size_segments),
                       collision |-> ZeroArray(level_size_segments)], bit_indices)
    IN  fphash_remove_collided(rc.result, rc.collision)

\* Builder::retained(key): false iff key is hashed at a level built so far.
\* The source's all() stops at the first level that holds the key's bit, and
\* a key is hashed with a seed only while it is retained, so hash[s][key] is
\* defined wherever all() evaluates it.
retained(key) ==
    \A s \in 1..Len(arrays) :
        /\ key \in DOMAIN hash[s]
        /\ ~get_bit(arrays[s], index(key, hash[s], Len(arrays[s]) * WordBits))

\* ---------------------------------------------------------------- KeySet
\* A key set is a record; kind names the implementation, inner the wrapped
\* key set of a CachedKeySet.  Fields an implementation does not have stay
\* at their initial values.
\*   vec       Vec<K> itself; SliceSourceWithClones::retained; CachedKeySet::Cached
\*   slice     the slice of the slice sources; the keys of DynamicKeySet's iterator
\*   len       SliceMutSource::len, DynamicKeySet::len
\*   has_retained   whether `retained` is Some (SliceSourceWithClones, SliceSourceWithRefs)
\*   segment_begin_index, deltas   RetainedIndexes; deltas also of ...EmptyCleaning
\*   segments  SliceSourceWithRefsEmptyCleaning::segments, pairs <<index in deltas, index in slice>>
\*   cached    CachedKeySet is Cached (else Dynamic)
\*   clone_threshold   of CachedKeySet::Dynamic
\*   panicked  a usize subtraction of the implementation underflowed

KeySetKinds == {"Vec", "SliceMutSource", "SliceSourceWithClones", "SliceSourceWithRefs",
                "SliceSourceWithRefsEmptyCleaning", "DynamicKeySet", "CachedKeySet"}

NewKeySet(kind, inner, keys, clone_threshold) ==
    [kind |-> kind, inner |-> inner,
     vec |-> IF kind = "Vec" THEN keys ELSE <<>>,
     slice |-> IF kind = "Vec" THEN <<>> ELSE keys,
     len |-> Len(keys),
     has_retained |-> FALSE,
     segment_begin_index |-> <<>>, deltas |-> <<>>, segments |-> <<>>,
     cached |-> FALSE, clone_threshold |-> clone_threshold,
     panicked |-> FALSE]

\* The implementation whose methods a call reaches.
Impl(k) == IF k.kind = "CachedKeySet"
           THEN (IF k.cached THEN "Vec" ELSE k.inner)
           ELSE k.kind

\* slice.chunks(1<<16): the number of chunks, and the 0-based chunk seg_i.
NumChunks(slice) == ceiling_div(Len(slice), SegmentSize)

\* KeySet::keys_len
KeysLenOf(impl, k) ==
    CASE impl = "Vec" -> Len(k.vec)
      [] impl = "SliceMutSource" -> k.len
      [] impl = "SliceSourceWithClones" ->
            IF k.has_retained THEN Len(k.vec) ELSE Len(k.slice)
      [] impl = "SliceSourceWithRefs" ->
            IF k.has_retained THEN Len(k.deltas) ELSE Len(k.slice)
      [] impl = "SliceSourceWithRefsEmptyCleaning" ->
            IF k.segments = <<>> THEN Len(k.slice) ELSE Len(k.deltas)
      [] impl = "DynamicKeySet" -> k.len

keys_len(k) == KeysLenOf(Impl(k), k)

has_par_for_each_key(k) == k.kind # "DynamicKeySet"

has_par_retain_keys(k) == k.kind \notin {"DynamicKeySet", "SliceMutSource"}

\* SliceSourceWithRefs::for_each_key with retained = Some: the keys of
\* segment seg_i onwards, in order.
RECURSIVE RefsKeys(_, _)
RefsKeys(k, seg_i) ==
    IF seg_i >= Len(k.segment_begin_index) - 1 \/ seg_i >= NumChunks(k.slice) THEN <<>>
    ELSE LET ds == SubSeq(k.deltas, k.segment_begin_index[seg_i + 1] + 1,
                          k.segment_begin_index[seg_i + 2])
         IN  [j \in 1..Len(ds) |-> k.slice[seg_i * SegmentSize + ds[j] + 1]]
             \o RefsKeys(k, seg_i + 1)

\* SliceSourceWithRefs::par_for_each_key and par_map_each_key with retained
\* = Some: the keys of chunk seg_i onwards, the chunks enumerated and the
\* deltas of chunk seg_i taken between segment_begin_index[seg_i] and
\* segment_begin_index[seg_i+1].  An index out of range is a panic.
RECURSIVE RefsKeysByChunk(_, _)
RefsKeysByChunk(k, seg_i) ==
    IF seg_i >= NumChunks(k.slice) THEN <<>>
    ELSE IF seg_i + 2 > Len(k.segment_begin_index) THEN <<"panic">>
    ELSE LET ds == SubSeq(k.deltas, k.segment_begin_index[seg_i + 1] + 1,
                          k.segment_begin_index[seg_i + 2])
         IN  [j \in 1..Len(ds) |-> k.slice[seg_i * SegmentSize + ds[j] + 1]]
             \o RefsKeysByChunk(k, seg_i + 1)

\* SliceSourceWithRefsEmptyCleaning::for_each_in_segment, for seg_i onwards.
RECURSIVE EmptyCleaningKeys(_, _)
EmptyCleaningKeys(k, seg_i) ==
    IF seg_i >= Len(k.segments) - 1 THEN <<>>
    ELSE LET ds == SubSeq(k.deltas, k.segments[seg_i + 1][1] + 1, k.segments[seg_i + 2][1])
         IN  [j \in 1..Len(ds) |-> k.slice[k.segments[seg_i + 1][2] + ds[j] + 1]]
             \o EmptyCleaningKeys(k, seg_i + 1)

\* KeySet::for_each_key: the keys f is called for, in order.  retained_hint
\* is the set of keys the hint accepts; only DynamicKeySet consults it.
\* par_for_each_key visits the same keys, in any order; map_each_key and
\* par_map_each_key return the outputs in this order.
ForEachKeyOf(impl, k, retained_hint) ==
    CASE impl = "Vec" -> k.vec
      [] impl = "SliceMutSource" -> SubSeq(k.slice, 1, k.len)
      [] impl = "SliceSourceWithClones" -> IF k.has_retained THEN k.vec ELSE k.slice
      [] impl = "SliceSourceWithRefs" -> IF k.has_retained THEN RefsKeys(k, 0) ELSE k.slice
      [] impl = "SliceSourceWithRefsEmptyCleaning" ->
            IF k.segments = <<>> THEN k.slice ELSE EmptyCleaningKeys(k, 0)
      [] impl = "DynamicKeySet" -> SelectSeq(k.slice, LAMBDA key : key \in retained_hint)

for_each_key(k, retained_hint) == ForEachKeyOf(Impl(k), k, retained_hint)

\* ------------------------------------------------------- KeySet: retain
\* A retain call is described by
\*   filter           the function key -> BOOLEAN (filter of the source),
\*   index_filter     the sequence of BOOLEAN, index_filter[i+1] for index i,
\*   retained_earlier the set of keys the retained_earlier predicate accepts,
\*   remove_count     the number remove_count() returns.

\* The elements of seq at the positions the filter accepts counted from the end.
KeepAtFromEnd(seq, index_filter) ==
    LET idx == SortedSeq({i \in 1..Len(seq) : index_filter[Len(seq) + 1 - i]})
    IN  [j \in 1..Len(idx) |-> seq[idx[j]]]

\* The elements of seq at the positions i (0-based) with index_filter(i),
\* kept in order.
KeepAt(seq, index_filter) ==
    LET idx == SortedSeq({i \in 1..Len(seq) : index_filter[i]})
    IN  [j \in 1..Len(idx) |-> seq[idx[j]]]

\* Vec::with_capacity(len - remove_count()): the subtraction underflows.
CapacityUnderflow(len, remove_count) == remove_count > len

\* Vec::retain_keys, Vec::par_retain_keys
VecRetain(k, filter, remove_count, par) ==
    [k EXCEPT !.vec = SelectSeq(k.vec, LAMBDA key : filter[key]),
              !.panicked = @ \/ (par /\ CapacityUnderflow(Len(k.vec), remove_count))]

\* Vec::retain_keys_with_indices, Vec::par_retain_keys_with_indices
VecRetainWithIndices(k, index_filter, remove_count, par) ==
    [k EXCEPT !.vec = KeepAt(k.vec, index_filter),
              !.panicked = @ \/ (par /\ CapacityUnderflow(Len(k.vec), remove_count))]

\* A removal loop without the swap: the last key in use overwrites the removed one.
RECURSIVE SliceMutLoopOverwriting(_, _, _, _)
SliceMutLoopOverwriting(slice, len, i, filter) ==
    IF i >= len THEN [slice |-> slice, len |-> len]
    ELSE IF filter[slice[i + 1]]
         THEN SliceMutLoopOverwriting(slice, len, i + 1, filter)
         ELSE SliceMutLoopOverwriting([slice EXCEPT ![i + 1] = slice[len]],
                                      len - 1, i, filter)

\* SliceMutSource::retain_keys: the loop from position i, removing a key by
\* swapping it with the last one in use.
RECURSIVE SliceMutLoop(_, _, _, _)
SliceMutLoop(slice, len, i, filter) ==
    IF i >= len THEN [slice |-> slice, len |-> len]
    ELSE IF filter[slice[i + 1]]
         THEN SliceMutLoop(slice, len, i + 1, filter)
         ELSE SliceMutLoop([slice EXCEPT ![i + 1] = slice[len], ![len] = slice[i + 1]],
                           len - 1, i, filter)

\* The keys the loop of SliceMutSource::retain_keys passes to filter from
\* position i on, in the order of the calls.
RECURSIVE SliceMutTests(_, _, _, _)
SliceMutTests(slice, len, i, filter) ==
    IF i >= len THEN <<>>
    ELSE <<slice[i + 1]>> \o
         (IF filter[slice[i + 1]]
          THEN SliceMutTests(slice, len, i + 1, filter)
          ELSE SliceMutTests([slice EXCEPT ![i + 1] = slice[len], ![len] = slice[i + 1]],
                             len - 1, i, filter))

SliceMutRetain(k, filter) ==
    LET r == SliceMutLoop(k.slice, k.len, 0, filter)
    IN  [k EXCEPT !.slice = r.slice, !.len = r.len]

\* SliceSourceWithClones::retain_keys, par_retain_keys
ClonesRetain(k, filter, remove_count, par) ==
    IF k.has_retained THEN VecRetain(k, filter, remove_count, par)
    ELSE [k EXCEPT !.vec = SelectSeq(k.slice, LAMBDA key : filter[key]),
                   !.has_retained = TRUE]

\* SliceSourceWithClones::retain_keys_with_indices (a counter of the filter
\* calls) and par_retain_keys_with_indices (enumerate).
ClonesRetainWithIndices(k, index_filter, remove_count, par) ==
    IF k.has_retained
    THEN [k EXCEPT !.vec = KeepAt(k.vec, index_filter),
                   !.panicked = @ \/ (par /\ CapacityUnderflow(Len(k.vec), remove_count))]
    ELSE [k EXCEPT !.vec = KeepAt(k.slice, index_filter),
                   !.has_retained = TRUE]

\* SliceSourceWithRefs::retain_keys / par_retain_keys, retained = Some: the
\* loop over the chunks from seg_i; sbi is segment_begin_index as updated so far.
RECURSIVE RefsRetainLoop(_, _, _, _, _)
RefsRetainLoop(k, sbi, filter, seg_i, new_deltas) ==
    IF seg_i >= NumChunks(k.slice)
    THEN [k EXCEPT !.segment_begin_index = [sbi EXCEPT ![Len(sbi)] = Len(new_deltas)],
                   !.deltas = new_deltas]
    ELSE LET ds   == SubSeq(k.deltas, sbi[seg_i + 1] + 1, sbi[seg_i + 2])
             kept == SelectSeq(ds, LAMBDA d : filter[k.slice[seg_i * SegmentSize + d + 1]])
         IN  RefsRetainLoop(k, [sbi EXCEPT ![seg_i + 1] = Len(new_deltas)],
                            filter, seg_i + 1, new_deltas \o kept)

\* A first pass that stores positions in the slice instead of positions in
\* the chunk.
RECURSIVE RefsFirstLoopAbsolute(_, _, _, _, _)
RefsFirstLoopAbsolute(slice, filter, seg_i, new_deltas, sbi) ==
    IF seg_i >= NumChunks(slice)
    THEN [segment_begin_index |-> sbi, deltas |-> new_deltas]
    ELSE LET lo == seg_i * SegmentSize
             hi == IF lo + SegmentSize < Len(slice) THEN lo + SegmentSize ELSE Len(slice)
             kept == SelectSeq([i \in 1..(hi - lo) |-> lo + i - 1],
                               LAMBDA d : filter[slice[d + 1]])
         IN  RefsFirstLoopAbsolute(slice, filter, seg_i + 1, new_deltas \o kept,
                                   Append(sbi, Len(new_deltas \o kept)))

\* ... retained = None: the deltas of the keys of chunk seg_i onwards that
\* pass the filter, and the segment_begin_index entries pushed.
RECURSIVE RefsFirstLoop(_, _, _, _, _)
RefsFirstLoop(slice, filter, seg_i, new_deltas, sbi) ==
    IF seg_i >= NumChunks(slice)
    THEN [segment_begin_index |-> sbi, deltas |-> new_deltas]
    ELSE LET lo == seg_i * SegmentSize
             hi == IF lo + SegmentSize < Len(slice) THEN lo + SegmentSize ELSE Len(slice)
             kept == SelectSeq([i \in 1..(hi - lo) |-> i - 1],
                               LAMBDA d : filter[slice[lo + d + 1]])
         IN  RefsFirstLoop(slice, filter, seg_i + 1, new_deltas \o kept,
                           Append(sbi, Len(new_deltas \o kept)))

RefsRetain(k, filter, remove_count) ==
    IF k.has_retained
    THEN [RefsRetainLoop(k, k.segment_begin_index, filter, 0, <<>>)
            EXCEPT !.panicked = @ \/ CapacityUnderflow(Len(k.deltas), remove_count)]
    ELSE LET r == RefsFirstLoop(k.slice, filter, 0, <<>>, <<0>>)
         IN  [k EXCEPT !.has_retained = TRUE,
                       !.segment_begin_index = r.segment_begin_index,
                       !.deltas = r.deltas,
                       !.panicked = @ \/ CapacityUnderflow(Len(k.slice), remove_count)]

\* SliceSourceWithRefsEmptyCleaning::retain.  mode tells how a key is tested:
\*   "key"      filter(key)                         (retain_keys, par_retain_keys)
\*   "counter"  index_filter(number of tests so far) (retain_keys_with_indices)
\*   "shift"    index_filter(shift + key_nr)        (par_retain_keys_with_indices)
EmptyCleaningTest(mode, filter, index_filter, key, counter, shifted) ==
    CASE mode = "key" -> filter[key]
      [] mode = "counter" -> index_filter[counter + 1]
      [] mode = "shift" -> index_filter[shifted + 1]

\* ... segments is empty: extend_with_slice for the chunks from seg_i;
\* slice_index is seg_i << 16 in the source.
RECURSIVE EmptyCleaningFirstLoop(_, _, _, _, _, _, _)
EmptyCleaningFirstLoop(slice, mode, filter, index_filter, seg_i, deltas, segments) ==
    IF seg_i >= NumChunks(slice)
    THEN [deltas |-> deltas, segments |-> segments]
    ELSE LET slice_index == seg_i * SegmentSize
             hi == IF slice_index + SegmentSize < Len(slice)
                   THEN slice_index + SegmentSize ELSE Len(slice)
             kept == SelectSeq([i \in 1..(hi - slice_index) |-> i - 1],
                        LAMBDA key_nr :
                            EmptyCleaningTest(mode, filter, index_filter,
                                              slice[slice_index + key_nr + 1],
                                              slice_index + key_nr,
                                              slice_index + key_nr))
         IN  EmptyCleaningFirstLoop(slice, mode, filter, index_filter, seg_i + 1,
                                    deltas \o kept,
                                    Append(segments, <<Len(deltas \o kept), slice_index + SegmentSize>>))

\* ... segments is not empty: the loop over the segments from seg_i; the
\* counter of the tests made so far equals the index in deltas of the
\* segment's first key, since the segments are adjacent in deltas.
RECURSIVE EmptyCleaningLoop(_, _, _, _, _, _, _, _)
EmptyCleaningLoop(k, segments, mode, filter, index_filter, seg_i, new_deltas, new_seg_len) ==
    IF seg_i >= Len(k.segments) - 1
    THEN [k EXCEPT !.deltas = new_deltas,
                   !.segments = SubSeq([segments EXCEPT ![new_seg_len + 1][1] = Len(new_deltas)],
                                       1, new_seg_len + 1)]
    ELSE LET si == segments[seg_i + 1]
             ds == SubSeq(k.deltas, si[1] + 1, segments[seg_i + 2][1])
             tested == Len(Flatten([j \in 1..seg_i |->
                          SubSeq(k.deltas, k.segments[j][1] + 1, k.segments[j + 1][1])]))
             pos == SortedSeq({j \in 1..Len(ds) :
                        EmptyCleaningTest(mode, filter, index_filter,
                                          k.slice[si[2] + ds[j] + 1],
                                          tested + j - 1,
                                          si[1] + j - 1)})
             kept == [j \in 1..Len(pos) |-> ds[pos[j]]]
         IN  IF kept # <<>>
             THEN EmptyCleaningLoop(k,
                      [segments EXCEPT ![new_seg_len + 1] = <<Len(new_deltas), si[2]>>],
                      mode, filter, index_filter, seg_i + 1, new_deltas \o kept, new_seg_len + 1)
             ELSE EmptyCleaningLoop(k, segments, mode, filter, index_filter,
                                    seg_i + 1, new_deltas, new_seg_len)

EmptyCleaningRetain(k, mode, filter, index_filter, remove_count) ==
    IF k.segments = <<>>
    THEN LET r == EmptyCleaningFirstLoop(k.slice, mode, filter, index_filter, 0,
                                         k.deltas, <<<<0, 0>>>>)
         IN  [k EXCEPT !.deltas = r.deltas, !.segments = r.segments,
                       !.panicked = @ \/ CapacityUnderflow(Len(k.slice), remove_count)]
    ELSE [EmptyCleaningLoop(k, k.segments, mode, filter, index_filter, 0, <<>>, 0)
            EXCEPT !.panicked = @ \/ CapacityUnderflow(Len(k.deltas), remove_count)]

\* DynamicKeySet::retain_keys: self.len = retains_count().
DynamicRetain(k, remove_count) == [k EXCEPT !.len = remove_count]

\* The retain method op of implementation impl (the trait's default methods
\* resolved): retain_keys_with_indices defaults to retain_keys and
\* par_retain_keys_with_indices to par_retain_keys, which defaults to
\* retain_keys.
RetainOps == {"retain_keys", "par_retain_keys",
              "retain_keys_with_indices", "par_retain_keys_with_indices"}

RetainOf(impl, k, op, filter, index_filter, remove_count) ==
    LET par     == op \in {"par_retain_keys", "par_retain_keys_with_indices"}
        indexed == op \in {"retain_keys_with_indices", "par_retain_keys_with_indices"}
    IN  CASE impl = "Vec" ->
                IF indexed THEN VecRetainWithIndices(k, index_filter, remove_count, par)
                ELSE VecRetain(k, filter, remove_count, par)
          [] impl = "SliceMutSource" -> SliceMutRetain(k, filter)
          [] impl = "SliceSourceWithClones" ->
                IF indexed THEN ClonesRetainWithIndices(k, index_filter, remove_count, par)
                ELSE ClonesRetain(k, filter, remove_count, par)
          [] impl = "SliceSourceWithRefs" -> RefsRetain(k, filter, remove_count)
          [] impl = "SliceSourceWithRefsEmptyCleaning" ->
                EmptyCleaningRetain(k,
                    CASE op = "retain_keys_with_indices" -> "counter"
                      [] op = "par_retain_keys_with_indices" -> "shift"
                      [] OTHER -> "key",
                    filter, index_filter, remove_count)
          [] impl = "DynamicKeySet" -> DynamicRetain(k, remove_count)

\* A conversion into a vector whose map_each_key is given a hint that accepts
\* every key.
RetainIntoVecUnhinted(impl, k, op, filter, index_filter, retained_earlier, remove_count) ==
    LET r == RetainOf(impl, k, op, filter, index_filter, remove_count)
    IN  [r EXCEPT !.vec = ForEachKeyOf(impl, r, Range(r.slice))]

\* KeySet::(par_)retain_keys(_with_indices)_into_vec, the trait's default:
\* retain, then map_each_key(clone, |k| retained_earlier(k) && filter(k)).
RetainIntoVec(impl, k, op, filter, index_filter, retained_earlier, remove_count) ==
    LET r == RetainOf(impl, k, op, filter, index_filter, remove_count)
    IN  [r EXCEPT !.vec = ForEachKeyOf(impl, r,
                     {key \in Range(r.slice) : key \in retained_earlier /\ filter[key]})]

\* CachedKeySet's four retain methods: cache when the wrapped key set has
\* fewer keys than clone_threshold.
CachedRetain(k, op, filter, index_filter, retained_earlier, remove_count) ==
    IF k.cached THEN RetainOf("Vec", k, op, filter, index_filter, remove_count)
    ELSE IF KeysLenOf(k.inner, k) < k.clone_threshold
         THEN [RetainIntoVec(k.inner, k, op, filter, index_filter, retained_earlier, remove_count)
                 EXCEPT !.cached = TRUE]
         ELSE RetainOf(k.inner, k, op, filter, index_filter, remove_count)

Retain(k, op, filter, index_filter, retained_earlier, remove_count) ==
    IF k.kind = "CachedKeySet"
    THEN CachedRetain(k, op, filter, index_filter, retained_earlier, remove_count)
    ELSE RetainOf(k.kind, k, op, filter, index_filter, remove_count)

\* par_for_each_key: keys with different group numbers are visited
\* concurrently, keys of one group in order.  Vec and the slices as a whole
\* are parallel iterators over the keys; SliceSourceWithRefs runs over
\* par_chunks and SliceSourceWithRefsEmptyCleaning over its segments, each
\* sequentially inside; DynamicKeySet has the trait's default, for_each_key.
PosIn(slice, key) == CHOOSE i \in 1..Len(slice) : slice[i] = key

ParGroups(k, visit) ==
    LET impl == Impl(k)
        by_chunk == [i \in 1..Len(visit) |-> (PosIn(k.slice, visit[i]) - 1) \div SegmentSize]
        each     == [i \in 1..Len(visit) |-> i]
    IN  CASE impl = "SliceSourceWithRefs" -> IF k.has_retained THEN by_chunk ELSE each
          [] impl = "SliceSourceWithRefsEmptyCleaning" ->
                IF k.segments = <<>> THEN each ELSE by_chunk
          [] impl = "DynamicKeySet" -> [i \in 1..Len(visit) |-> 0]
          [] OTHER -> each

\* ------------------------------------------------------------ the builder

\* The keys the predicate |key| self.retained(key) accepts.
RetainedNow == {key \in Range(input) : retained(key)}

\* probe before any call of get.
NoProbe == [called |-> FALSE, key |-> 0, row |-> <<>>,
            found |-> FALSE, value |-> 0, level_nr |-> 0, i |-> 0]

NoLevelLocals ==
    [level_size_segments |-> 0, seed |-> 0, path |-> "none", hs |-> <<>>,
     keys |-> <<>>, bit_indices |-> <<>>, group |-> <<>>, task |-> <<>>,
     sync |-> FALSE, result |-> <<>>, collision |-> <<>>, array |-> <<>>]

\* Builder::new and the key set handed to with_conf_stats.
KeySetChoices ==
    [kind : KeySetKinds \ {"CachedKeySet"}, inner : {"none"}, clone_threshold : {0}]
    \cup [kind : {"CachedKeySet"}, inner : {"DynamicKeySet", "SliceSourceWithRefs"},
          clone_threshold : CloneThresholds]

BuilderNew(c, threads, keys, choice, hz) ==
    /\ conf = c
    /\ num_threads = threads
    /\ input = keys
    /\ ks = NewKeySet(choice.kind, choice.inner, keys, choice.clone_threshold)
    /\ pc = "loop"
    /\ input_size = keys_len(ks)
    /\ use_multiple_threads = (/\ c.use_multiple_threads
                               /\ (has_par_for_each_key(ks) \/ has_par_retain_keys(ks))
                               /\ threads > 1)
    /\ arrays = <<>>
    /\ hash = <<>>
    /\ lv = NoLevelLocals
    /\ fn = [level_sizes |-> <<>>, content |-> <<>>]
    /\ probe = NoProbe
    /\ live = Range(keys)
    /\ placed = [key \in Range(keys) |-> NoLevel]
    /\ horizon = hz
    /\ fn_buff = [written |-> FALSE, bytes |-> <<>>]
    /\ read_fn = [done |-> FALSE, ok |-> FALSE, level_sizes |-> <<>>, content |-> <<>>,
                  words_read |-> 0, rest |-> <<>>]
    /\ retains = <<>>

FmphInit ==
    \E c \in [relative_level_size : RelativeLevelSizes,
              cache_threshold : CacheThresholds,
              use_multiple_threads : BOOLEAN],
       threads \in {1, 2}, n \in 0..MaxKeys, choice \in KeySetChoices :
        BuilderNew(c, threads, [i \in 1..n |-> i], choice, "stop")

\* A level start that refuses a relative_level_size below 100.
LevelStartRejecting ==
    /\ pc = "loop"
    /\ conf.relative_level_size >= 100
    /\ input_size # 0
    /\ ~ks.panicked
    /\ horizon = "stop" => Len(arrays) < MaxLevels
    /\ LET level_size_segments ==
               ceiling_div(input_size * conf.relative_level_size, WordBits * 100)
           level_size == level_size_segments * WordBits
           visit == for_each_key(ks, RetainedNow)
           path  == IF input_size < conf.cache_threshold THEN "cached"
                    ELSE IF use_multiple_threads THEN "mt" ELSE "st"
           sync  == \/ path = "cached" /\ use_multiple_threads
                    \/ path = "mt" /\ has_par_for_each_key(ks)
       IN  \E hs \in [Range(visit) -> HashValues] :
             lv' = [level_size_segments |-> level_size_segments,
                    seed |-> Len(arrays),
                    path |-> path,
                    hs |-> hs,
                    keys |-> visit,
                    bit_indices |-> [i \in 1..Len(visit) |-> index(visit[i], hs, level_size)],
                    group |-> IF ~sync THEN [i \in 1..Len(visit) |-> 0]
                              ELSE IF path = "cached" THEN [i \in 1..Len(visit) |-> i]
                              ELSE ParGroups(ks, visit),
                    task |-> [i \in 1..Len(visit) |-> "todo"],
                    sync |-> sync,
                    result |-> ZeroArray(level_size_segments),
                    collision |-> ZeroArray(level_size_segments),
                    array |-> <<>>]
    /\ pc' = "add"
    /\ UNCHANGED <<conf, num_threads, input, ks, input_size, use_multiple_threads,
                   arrays, hash, fn, probe, live, placed, horizon>>

\* build_levels, from the loop test to the start of the level's array: the
\* level size, the seed, the path, and the keys the level visits with their
\* bit indices.  The hash values of the seed are chosen here, for the visited keys.
LevelStart ==
    /\ pc = "loop"
    /\ input_size # 0
    /\ ~ks.panicked
    /\ horizon = "stop" => Len(arrays) < MaxLevels
    /\ LET level_size_segments ==
               ceiling_div(input_size * conf.relative_level_size, WordBits * 100)
           level_size == level_size_segments * WordBits
           visit == for_each_key(ks, RetainedNow)
           path  == IF input_size < conf.cache_threshold THEN "cached"
                    ELSE IF use_multiple_threads THEN "mt" ELSE "st"
           sync  == \/ path = "cached" /\ use_multiple_threads
                    \/ path = "mt" /\ has_par_for_each_key(ks)
       IN  \E hs \in [Range(visit) -> HashValues] :
             lv' = [level_size_segments |-> level_size_segments,
                    seed |-> Len(arrays),
                    path |-> path,
                    hs |-> hs,
                    keys |-> visit,
                    bit_indices |-> [i \in 1..Len(visit) |-> index(visit[i], hs, level_size)],
                    group |-> IF ~sync THEN [i \in 1..Len(visit) |-> 0]
                              ELSE IF path = "cached" THEN [i \in 1..Len(visit) |-> i]
                              ELSE ParGroups(ks, visit),
                    task |-> [i \in 1..Len(visit) |-> "todo"],
                    sync |-> sync,
                    result |-> ZeroArray(level_size_segments),
                    collision |-> ZeroArray(level_size_segments),
                    array |-> <<>>]
    /\ pc' = "add"
    /\ UNCHANGED <<conf, num_threads, input, ks, input_size, use_multiple_threads,
                   arrays, hash, fn, probe, live, placed, horizon>>

\* Task i may start: the tasks before it in its group are finished.
MayRun(i) ==
    /\ lv.task[i] = "todo"
    /\ \A j \in 1..(i - 1) : lv.group[j] = lv.group[i] => lv.task[j] = "done"

\* One iteration of the single-threaded loops (build_level_st,
\* build_array_for_indices_st): fphash_add_bit for the next bit index.
AddBitSt ==
    /\ pc = "add"
    /\ ~lv.sync
    /\ \E i \in 1..Len(lv.task) :
        /\ MayRun(i)
        /\ LET rc == fphash_add_bit([result |-> lv.result, collision |-> lv.collision],
                                    lv.bit_indices[i])
           IN  lv' = [lv EXCEPT !.result = rc.result, !.collision = rc.collision,
                                !.task[i] = "done"]
    /\ UNCHANGED <<conf, num_threads, input, ks, pc, input_size, use_multiple_threads,
                   arrays, hash, fn, probe, live, placed, horizon>>

\* A first step that sets the bit and does not look at the old value.
SyncOrResultBlind(i) ==
    /\ pc = "add"
    /\ lv.sync
    /\ MayRun(i)
    /\ lv' = [lv EXCEPT !.result[(lv.bit_indices[i] \div WordBits) + 1] =
                            @ \cup {lv.bit_indices[i] % WordBits},
                        !.task[i] = "done"]
    /\ UNCHANGED <<conf, num_threads, input, ks, pc, input_size, use_multiple_threads,
                   arrays, hash, fn, probe, live, placed, horizon>>

\* fphash_sync_add_bit, first atomic step of task i:
\* old_result = result[index].fetch_or(mask).
SyncFetchOrResult(i) ==
    /\ pc = "add"
    /\ lv.sync
    /\ MayRun(i)
    /\ LET index_ == (lv.bit_indices[i] \div WordBits) + 1
           mask   == {lv.bit_indices[i] % WordBits}
           old_result == lv.result[index_]
       IN  lv' = [lv EXCEPT !.result[index_] = @ \cup mask,
                            !.task[i] = IF old_result \cap mask # {} THEN "collide" ELSE "done"]
    /\ UNCHANGED <<conf, num_threads, input, ks, pc, input_size, use_multiple_threads,
                   arrays, hash, fn, probe, live, placed, horizon>>

\* A second step that does not record the collision.
SyncCollisionDropped(i) ==
    /\ pc = "add"
    /\ lv.sync
    /\ lv.task[i] = "collide"
    /\ lv' = [lv EXCEPT !.task[i] = "done"]
    /\ UNCHANGED <<conf, num_threads, input, ks, pc, input_size, use_multiple_threads,
                   arrays, hash, fn, probe, live, placed, horizon>>

\* fphash_sync_add_bit, second atomic step of task i, taken when
\* old_result & mask != 0: collision[index].fetch_or(mask).
SyncFetchOrCollision(i) ==
    /\ pc = "add"
    /\ lv.sync
    /\ lv.task[i] = "collide"
    /\ LET index_ == (lv.bit_indices[i] \div WordBits) + 1
           mask   == {lv.bit_indices[i] % WordBits}
       IN  lv' = [lv EXCEPT !.collision[index_] = @ \cup mask,
                            !.task[i] = "done"]
    /\ UNCHANGED <<conf, num_threads, input, ks, pc, input_size, use_multiple_threads,
                   arrays, hash, fn, probe, live, placed, horizon>>

\* A sweep that does not wait for the add-bit steps of the level.
RemoveCollidedEarly ==
    /\ pc = "add"
    /\ lv' = [lv EXCEPT !.array = fphash_remove_collided(lv.result, lv.collision)]
    /\ pc' = "retain"
    /\ UNCHANGED <<conf, num_threads, input, ks, input_size, use_multiple_threads,
                   arrays, hash, fn, probe, live, placed, horizon>>

\* The end of build_level_st / build_level_mt / build_array_for_indices(_st),
\* after the loop or the join of the parallel iterator: fphash_remove_collided.
RemoveCollided ==
    /\ pc = "add"
    /\ \A i \in 1..Len(lv.task) : lv.task[i] = "done"
    /\ lv' = [lv EXCEPT !.array = fphash_remove_collided(lv.result, lv.collision)]
    /\ pc' = "retain"
    /\ UNCHANGED <<conf, num_threads, input, ks, input_size, use_multiple_threads,
                   arrays, hash, fn, probe, live, placed, horizon>>

\* A filter that retains no key.
RetainNoKey == [key \in DOMAIN lv.hs |-> FALSE]

\* The closures build_levels hands to the retain methods.
LevelFilter ==
    [key \in DOMAIN lv.hs |->
        ~get_bit(lv.array, index(key, lv.hs, lv.level_size_segments * WordBits))]

LevelIndexFilter ==
    [i \in 1..Len(lv.bit_indices) |-> ~get_bit(lv.array, lv.bit_indices[i])]

LevelRetainOp ==
    CASE lv.path = "cached" -> IF use_multiple_threads THEN "par_retain_keys_with_indices"
                               ELSE "retain_keys_with_indices"
      [] lv.path = "mt" -> "par_retain_keys"
      [] lv.path = "st" -> "retain_keys"

\* build_levels: the retain call of the level.
RetainKeys ==
    /\ pc = "retain"
    /\ LET filter == LevelFilter
           passed == {key \in live : key \in DOMAIN filter => filter[key]}
           ks2 == Retain(ks, LevelRetainOp, filter, LevelIndexFilter, RetainedNow,
                         count_bit_ones(lv.array))
       IN  /\ ks' = ks2
           /\ live' = passed
           /\ placed' = [key \in DOMAIN placed |->
                            IF key \in live \ passed THEN lv.seed ELSE placed[key]]
           /\ pc' = IF ks2.panicked THEN "panicked" ELSE "push"
    /\ UNCHANGED <<conf, num_threads, input, input_size, use_multiple_threads,
                   arrays, hash, lv, fn, probe, horizon>>

\* build_levels: self.arrays.push(array); self.input_size = keys.keys_len().
\* Beyond MaxLevels levels (horizon = "forget") the level is not recorded.
PushLevel ==
    /\ pc = "push"
    /\ arrays' = IF Len(arrays) < MaxLevels THEN Append(arrays, lv.array) ELSE arrays
    /\ hash' = IF Len(arrays) < MaxLevels THEN Append(hash, lv.hs) ELSE hash
    /\ input_size' = keys_len(ks)
    /\ lv' = NoLevelLocals
    /\ pc' = "loop"
    /\ UNCHANGED <<conf, num_threads, input, ks, use_multiple_threads,
                   fn, probe, live, placed, horizon>>

\* with_conf_stats after build_levels returned: level_sizes and the
\* concatenated array.
Finish ==
    /\ pc = "loop"
    /\ input_size = 0
    /\ fn' = [level_sizes |-> [l \in 1..Len(arrays) |-> Len(arrays[l])],
              content |-> Flatten(arrays)]
    /\ pc' = "done"
    /\ UNCHANGED <<conf, num_threads, input, ks, input_size, use_multiple_threads,
                   arrays, hash, lv, live, placed, probe, horizon>>

\* ------------------------------------------------------------ the lookup

\* An index computed for half the level size.
FunctionIndexHalfSize(row, level_nr, size) == map64_to_64(row[level_nr + 1], size \div 2)

\* Function::index; row[level_nr + 1] is hash_builder.hash_one(k, level_nr).
FunctionIndex(row, level_nr, size) == map64_to_64(row[level_nr + 1], size)

\* A lookup that gives up after the first level.
get_stats_one_level(f, row, array_begin_index, level_nr) ==
    IF level_nr >= Len(f.level_sizes)
    THEN [found |-> FALSE, value |-> 0, level_nr |-> level_nr, i |-> 0]
    ELSE LET i == array_begin_index + map64_to_64(row[level_nr + 1], f.level_sizes[level_nr + 1] * WordBits)
         IN  IF get_bit(f.content, i)
             THEN [found |-> TRUE, value |-> rank(f.content, i), level_nr |-> level_nr, i |-> i]
             ELSE [found |-> FALSE, value |-> 0, level_nr |-> level_nr + 1, i |-> 0]

\* Function::get_stats: the loop from level_nr on.  The result tells whether
\* a bit was found, the value returned, the level the loop stopped at (the
\* number of levels if none held the bit) and the position i of the bit.
RECURSIVE get_stats(_, _, _, _)
get_stats(f, row, array_begin_index, level_nr) ==
    IF level_nr >= Len(f.level_sizes)
    THEN [found |-> FALSE, value |-> 0, level_nr |-> level_nr, i |-> 0]
    ELSE LET level_size == f.level_sizes[level_nr + 1] * WordBits
             i == array_begin_index + FunctionIndex(row, level_nr, level_size)
         IN  IF get_bit(f.content, i)
             THEN [found |-> TRUE, value |-> rank(f.content, i), level_nr |-> level_nr, i |-> i]
             ELSE get_stats(f, row, array_begin_index + level_size, level_nr + 1)

\* The hash values of key for the seeds 0..Len(level_sizes)-1: those the
\* build computed, and any value for a seed the build did not hash key with.
HashRows(key) ==
    {row \in [1..Len(fn.level_sizes) -> HashValues] :
        \A s \in 1..Len(hash) : key \in DOMAIN hash[s] => row[s] = hash[s][key]}

\* A call of Function::get (get_stats) on the built function.  A run records
\* one call: the hash values of a seed the build did not hash the key with
\* are chosen at the call, and a later call would have to see the same values.
Get(key) ==
    /\ pc = "done"
    /\ ~probe.called
    /\ \E row \in HashRows(key) :
         LET r == get_stats(fn, row, 0, 0)
         IN  probe' = [called |-> TRUE, key |-> key, row |-> row, found |-> r.found,
                       value |-> r.value, level_nr |-> r.level_nr, i |-> r.i]
    /\ UNCHANGED <<conf, num_threads, input, ks, pc, input_size, use_multiple_threads,
                   arrays, hash, lv, fn, live, placed, horizon>>

\* ------------------------------------------- a key set outside a build

\* A call of one of the four retain methods of the KeySet trait on ks, as
\* build_levels makes it: the filter accepts the keys of keep, index_filter
\* accepts the indices, in the order of map_each_key, of the keys the filter
\* accepts, retained_earlier accepts the keys not removed before, and
\* remove_count() is the number of keys the call removes.
RetainCall(op, keep) ==
    /\ pc = "idle"
    /\ Len(retains) < MaxRetains
    /\ ~ks.panicked
    /\ LET filter == [key \in Range(input) |-> key \in keep]
           order == for_each_key(ks, live)
           index_filter == [i \in 1..Len(order) |-> filter[order[i]]]
       IN  ks' = Retain(ks, op, filter, index_filter, live, Cardinality(live \ keep))
    /\ live' = live \cap keep
    /\ retains' = Append(retains, [op |-> op, keep |-> keep, before |-> ks, live |-> live])
    /\ UNCHANGED <<conf, num_threads, input, pc, input_size, use_multiple_threads,
                   arrays, hash, lv, fn, probe, placed, horizon, functionIoVars>>

\* ------------------------------------------------- minimum_redundancy

\* The values left in the order of the call.
NotReversed(s) == s

\* values.reverse().
Reverse(s) == [j \in 1..Len(s) |-> s[Len(s) + 1 - j]]

NoLocals == [freq |-> <<>>, values |-> <<>>, len |-> 0, tree_degree |-> 0,
             reduction_per_step |-> 0, current_tree_degree |-> 0,
             internals_begin |-> 0, leafs_begin |-> 0, internal_nodes_size |-> 0,
             next |-> 0, item |-> 0, max_depth |-> 0]

NoCoding == [values |-> <<>>, internal_nodes_count |-> <<>>, degree |-> 0]

\* freq has to be in non-descending order and of the same length as values.
SortedFreqs(n) ==
    {f \in [1..n -> 1..MaxFreq] : \A j \in 1..(n - 1) : f[j] <= f[j + 1]}

\* from_sorted is called with degree d and the frequencies f of the values 1..Len(f).
FromSortedCall(d, f) ==
    /\ args = [degree |-> d, values |-> [j \in 1..Len(f) |-> j], freq |-> f]
    /\ hpc = "call"
    /\ fs = NoLocals
    /\ coding = NoCoding

\* Frequencies::into_sorted on a map from values to numbers of occurrences:
\* the values in an order of non-descending frequency (values of equal
\* frequency in any order) and their frequencies.
IntoSorted(frequencies) ==
    {values \in [1..Cardinality(DOMAIN frequencies) -> DOMAIN frequencies] :
        /\ \A i, j \in DOMAIN values : i < j =>
               /\ values[i] # values[j]
               /\ frequencies[values[i]] <= frequencies[values[j]]}

\* Coding::from_frequencies: from_sorted is called with the sorted values
\* and frequencies.
FromFrequenciesCall(d, frequencies) ==
    /\ \E values \in IntoSorted(frequencies) :
         args = [degree |-> d, values |-> values,
                 freq |-> [j \in DOMAIN values |-> frequencies[values[j]]]]
    /\ hpc = "call"
    /\ fs = NoLocals
    /\ coding = NoCoding

\* A first step that takes tree_degree children whatever len is.
FirstTreeDegreeFull(len, tree_degree) == tree_degree

\* children of the internal node constructed in the first step
FirstTreeDegree(len, tree_degree) ==
    LET r == (len - 1) % (tree_degree - 1)
    IN  IF r = 0 THEN tree_degree ELSE r + 1

\* (len-1) / reduction_per_step rounded down.
InternalNodesSizeRoundedDown(len, tree_degree) == (len - 1) \div (tree_degree - 1)

\* (len-1) / reduction_per_step rounded up
InternalNodesSize(len, tree_degree) ==
    (len + (tree_degree - 1) - 2) \div (tree_degree - 1)

\* from_sorted, the case len <= tree_degree.
TrivialCase ==
    /\ hpc = "call"
    /\ Len(args.freq) <= args.degree
    /\ coding' = [values |-> Reverse(args.values), internal_nodes_count |-> <<0>>,
                  degree |-> args.degree]
    /\ hpc' = "done"
    /\ UNCHANGED <<args, fs>>

\* from_sorted, the locals set before the first pass.
EnterMerge ==
    /\ hpc = "call"
    /\ Len(args.freq) > args.degree
    /\ fs' = [freq |-> args.freq, values |-> args.values, len |-> Len(args.freq),
              tree_degree |-> args.degree,
              reduction_per_step |-> args.degree - 1,
              current_tree_degree |-> FirstTreeDegree(Len(args.freq), args.degree),
              internals_begin |-> 0, leafs_begin |-> 0,
              internal_nodes_size |-> InternalNodesSize(Len(args.freq), args.degree),
              next |-> 0, item |-> 0, max_depth |-> 0]
    /\ hpc' = "first"
    /\ UNCHANGED <<args, coding>>

\* A test that selects the internal node also when it weighs as much as the leaf.
FirstTakesInternalOnTies(l) ==
    \/ l.leafs_begin >= l.len
    \/ (l.internals_begin < l.next /\ l.freq[l.internals_begin + 1] <= l.freq[l.leafs_begin + 1])

\* The tests that select the internal node rather than the leaf.
FirstTakesInternal(l) ==
    \/ l.leafs_begin >= l.len
    \/ l.freq[l.internals_begin + 1] < l.freq[l.leafs_begin + 1]

\* A test that prefers the leaves: an internal node only when no leaf is left.
NextTakesLeafWhileAny(l) == l.leafs_begin >= l.len

\* A test that compares the weights without asking whether the internal
\* cursor points at a constructed node.
NextTakesInternalUnguarded(l) ==
    \/ l.leafs_begin >= l.len
    \/ l.freq[l.internals_begin + 1] < l.freq[l.leafs_begin + 1]

NextTakesInternal(l) ==
    \/ l.leafs_begin >= l.len
    \/ (l.internals_begin < l.next /\ l.freq[l.internals_begin + 1] < l.freq[l.leafs_begin + 1])

\* First pass, "select first item for a pairing".
SelectFirst ==
    /\ hpc = "first"
    /\ fs.next < fs.internal_nodes_size
    /\ fs' = IF FirstTakesInternal(fs)
             THEN [fs EXCEPT !.freq = [fs.freq EXCEPT ![fs.next + 1] = fs.freq[fs.internals_begin + 1],
                                                      ![fs.internals_begin + 1] = fs.next],
                             !.internals_begin = @ + 1, !.item = 1]
             ELSE [fs EXCEPT !.freq = [fs.freq EXCEPT ![fs.next + 1] = fs.freq[fs.leafs_begin + 1]],
                             !.leafs_begin = @ + 1, !.item = 1]
    /\ hpc' = "rest"
    /\ UNCHANGED <<args, coding>>

\* First pass, "add on the second, ... items": one iteration of the inner loop.
AddItem ==
    /\ hpc = "rest"
    /\ fs.item < fs.current_tree_degree
    /\ fs' = IF NextTakesInternal(fs)
             THEN [fs EXCEPT !.freq = [fs.freq EXCEPT ![fs.next + 1] = @ + fs.freq[fs.internals_begin + 1],
                                                      ![fs.internals_begin + 1] = fs.next],
                             !.internals_begin = @ + 1, !.item = @ + 1]
             ELSE [fs EXCEPT !.freq = [fs.freq EXCEPT ![fs.next + 1] = @ + fs.freq[fs.leafs_begin + 1]],
                             !.leafs_begin = @ + 1, !.item = @ + 1]
    /\ UNCHANGED <<args, hpc, coding>>

\* First pass, the end of the outer loop's body.
NextNode ==
    /\ hpc = "rest"
    /\ fs.item >= fs.current_tree_degree
    /\ fs' = [fs EXCEPT !.current_tree_degree = fs.tree_degree, !.next = @ + 1]
    /\ hpc' = "first"
    /\ UNCHANGED <<args, coding>>

\* Second pass, before its loop: max_depth = 0 and the value for the root.
DepthRoot ==
    /\ hpc = "first"
    /\ fs.next >= fs.internal_nodes_size
    /\ fs' = [fs EXCEPT !.max_depth = 0,
                        !.freq = [fs.freq EXCEPT ![fs.internal_nodes_size] = 0],
                        !.next = fs.internal_nodes_size - 2]
    /\ hpc' = "depth"
    /\ UNCHANGED <<args, coding>>

\* A second pass that adds one to the parent's index, not to the parent's depth.
DepthStepOfIndex ==
    /\ hpc = "depth"
    /\ fs.next >= 0
    /\ LET depth == fs.freq[fs.next + 1] + 1
       IN  fs' = [fs EXCEPT !.freq = [fs.freq EXCEPT ![fs.next + 1] = depth],
                            !.max_depth = IF depth % 256 > @ THEN depth % 256 ELSE @,
                            !.next = @ - 1]
    /\ UNCHANGED <<args, hpc, coding>>

\* Second pass, right to left: the depth of internal node next (max_depth is an u8).
DepthStep ==
    /\ hpc = "depth"
    /\ fs.next >= 0
    /\ LET depth == fs.freq[fs.freq[fs.next + 1] + 1] + 1
       IN  fs' = [fs EXCEPT !.freq = [fs.freq EXCEPT ![fs.next + 1] = depth],
                            !.max_depth = IF depth % 256 > @ THEN depth % 256 ELSE @,
                            !.next = @ - 1]
    /\ UNCHANGED <<args, hpc, coding>>

\* An internal_nodes_count allocated one entry too long.
NewCodingOneMore ==
    /\ hpc = "depth"
    /\ fs.next < 0
    /\ coding' = [values |-> Reverse(fs.values),
                  internal_nodes_count |-> [k \in 1..(fs.max_depth + 2) |-> 0],
                  degree |-> fs.tree_degree]
    /\ fs' = [fs EXCEPT !.values = Reverse(fs.values), !.next = 0]
    /\ hpc' = "count"
    /\ UNCHANGED args

\* values.reverse() and the zero-filled internal_nodes_count.
NewCoding ==
    /\ hpc = "depth"
    /\ fs.next < 0
    /\ coding' = [values |-> Reverse(fs.values),
                  internal_nodes_count |-> [k \in 1..(fs.max_depth + 1) |-> 0],
                  degree |-> fs.tree_degree]
    /\ fs' = [fs EXCEPT !.values = Reverse(fs.values), !.next = 0]
    /\ hpc' = "count"
    /\ UNCHANGED args

\* A last loop that counts every internal node at the first level.
CountStepFirstLevel ==
    /\ hpc = "count"
    /\ fs.next < fs.internal_nodes_size - 1
    /\ coding' = [coding EXCEPT !.internal_nodes_count[1] = @ + 1]
    /\ fs' = [fs EXCEPT !.next = @ + 1]
    /\ UNCHANGED <<args, hpc>>

\* The last loop: internal node next is counted at its level.
CountStep ==
    /\ hpc = "count"
    /\ fs.next < fs.internal_nodes_size - 1
    /\ coding' = [coding EXCEPT !.internal_nodes_count[fs.freq[fs.next + 1]] = @ + 1]
    /\ fs' = [fs EXCEPT !.next = @ + 1]
    /\ UNCHANGED <<args, hpc>>

Return ==
    /\ hpc = "count"
    /\ fs.next >= fs.internal_nodes_size - 1
    /\ hpc' = "done"
    /\ UNCHANGED <<args, fs, coding>>

\* ------------------------------------------- levels(), codes(), decoder()

\* TreeDegree::as_u32 and the product degree * x of the TreeDegree
\* implementations (a shift when the degree is a power of two).
as_u32(degree) == degree

DegreeMul(degree, x) == degree * x

Min(a, b) == IF a < b THEN a ELSE b

\* LevelIterator::new.
LevelIteratorNew(c) ==
    [last_value_index |-> 0, level_size |-> as_u32(c.degree), level |-> 0]

NoItem == [values |-> <<>>, internal_nodes |-> 0, level |-> 0]

\* LevelIterator::next.  some = FALSE is None; panic is the index out of
\* bounds of internal_nodes_count[level] or the overflow of
\* level_size - internal_nodes (u32, overflow checks on).
LevelIteratorNext(c, it) ==
    IF it.last_value_index = Len(c.values)
    THEN [some |-> FALSE, panic |-> FALSE, it |-> it, item |-> NoItem]
    ELSE IF it.level >= Len(c.internal_nodes_count)
    THEN [some |-> FALSE, panic |-> TRUE, it |-> it, item |-> NoItem]
    ELSE LET value_index == it.last_value_index
             internal_nodes == c.internal_nodes_count[it.level + 1]
             leaves_count == it.level_size - internal_nodes
             last == Min(value_index + leaves_count, Len(c.values))
         IN  IF leaves_count < 0
             THEN [some |-> FALSE, panic |-> TRUE, it |-> it, item |-> NoItem]
             ELSE [some |-> TRUE, panic |-> FALSE,
                   it |-> [last_value_index |-> last,
                           level_size |-> DegreeMul(c.degree, internal_nodes),
                           level |-> it.level + 1],
                   item |-> [values |-> SubSeq(c.values, value_index + 1, last),
                             internal_nodes |-> internal_nodes, level |-> it.level + 1]]

\* ExactSizeIterator::len of LevelIterator.
LevelIteratorLen(c, it) == Len(c.internal_nodes_count) - it.level

\* Coding::levels, collected: the items from the iterator state it on.
RECURSIVE LevelsFrom(_, _)
LevelsFrom(c, it) ==
    LET r == LevelIteratorNext(c, it)
    IN  IF r.panic THEN [panic |-> TRUE, items |-> <<>>]
        ELSE IF ~r.some THEN [panic |-> FALSE, items |-> <<>>]
        ELSE LET rest == LevelsFrom(c, r.it)
             IN  [panic |-> rest.panic, items |-> <<r.item>> \o rest.items]

levels(c) == LevelsFrom(c, LevelIteratorNew(c))

\* A total that counts the leaves of every level once.
total_leaves_count(c) ==
    SumSeq([k \in 1..Len(levels(c).items) |-> Len(levels(c).items[k].values)])

\* Coding::total_fragments_count.
total_fragments_count(c) ==
    SumSeq([k \in 1..Len(levels(c).items) |->
              Len(levels(c).items[k].values) * levels(c).items[k].level])

\* CodesIterator::new.
CodesIteratorNew(c) ==
    [level_iterator |-> LevelIteratorNew(c), value_index |-> 0, bits |-> 0]

\* CodesIterator::next, the loop "while value_index == last_value_index".
RECURSIVE CodesIteratorSkip(_, _)
CodesIteratorSkip(c, ci) ==
    IF ci.value_index = ci.level_iterator.last_value_index
    THEN LET r == LevelIteratorNext(c, ci.level_iterator)
         IN  IF r.panic \/ ~r.some
             THEN [some |-> FALSE, panic |-> r.panic, it |-> ci]
             ELSE CodesIteratorSkip(c, [ci EXCEPT !.level_iterator = r.it,
                                                  !.bits = r.item.internal_nodes])
    ELSE [some |-> TRUE, panic |-> FALSE, it |-> ci]

NoCode == [value |-> 0, bits |-> 0, fragments |-> 0]

\* A CodesIterator::next that does not advance bits.
CodesIteratorNextSameBits(c, ci) ==
    LET r == CodesIteratorSkip(c, ci)
    IN  IF ~r.some THEN [some |-> FALSE, panic |-> r.panic, it |-> r.it, item |-> NoCode]
        ELSE [some |-> TRUE, panic |-> FALSE,
              it |-> [r.it EXCEPT !.value_index = @ + 1],
              item |-> [value |-> c.values[r.it.value_index + 1], bits |-> r.it.bits,
                        fragments |-> r.it.level_iterator.level]]

\* CodesIterator::next: the item is (value, Code{bits, fragments}).
CodesIteratorNext(c, ci) ==
    LET r == CodesIteratorSkip(c, ci)
    IN  IF ~r.some THEN [some |-> FALSE, panic |-> r.panic, it |-> r.it, item |-> NoCode]
        ELSE [some |-> TRUE, panic |-> FALSE,
              it |-> [r.it EXCEPT !.value_index = @ + 1, !.bits = @ + 1],
              item |-> [value |-> c.values[r.it.value_index + 1], bits |-> r.it.bits,
                        fragments |-> r.it.level_iterator.level]]

\* ExactSizeIterator::len of CodesIterator.
CodesIteratorLen(c, ci) == Len(c.values) - ci.value_index

\* Coding::codes, collected: the items from the iterator state ci on.
RECURSIVE CodesFrom(_, _)
CodesFrom(c, ci) ==
    LET r == CodesIteratorNext(c, ci)
    IN  IF ~r.some THEN <<>> ELSE <<r.item>> \o CodesFrom(c, r.it)

codes(c) == CodesFrom(c, CodesIteratorNew(c))

\* DecodingResult.
Value(v) == [kind |-> "Value", value |-> v]
Incomplete == [kind |-> "Incomplete", value |-> 0]
Invalid == [kind |-> "Invalid", value |-> 0]
Panic == [kind |-> "panic", value |-> 0]

\* Decoder::new.
DecoderNew(c) ==
    [shift |-> 0, first_leaf_nr |-> 0, level_size |-> as_u32(c.degree), level |-> 0]

\* A consume whose leaf number forgets the leaves of the levels above.
consume_level_leaf(c, d, fragment) ==
    LET shift == d.shift + fragment
        internal_nodes_count == c.internal_nodes_count[d.level + 1]
    IN  IF shift < internal_nodes_count
        THEN [decoder |-> [shift |-> DegreeMul(c.degree, shift),
                           first_leaf_nr |-> d.first_leaf_nr + (d.level_size - internal_nodes_count),
                           level_size |-> DegreeMul(c.degree, internal_nodes_count),
                           level |-> d.level + 1],
              result |-> Incomplete]
        ELSE [decoder |-> [d EXCEPT !.shift = shift],
              result |-> IF shift - internal_nodes_count < Len(c.values)
                         THEN Value(c.values[shift - internal_nodes_count + 1])
                         ELSE Invalid]

\* A consume that goes two levels down for an internal node.
consume_skip_level(c, d, fragment) ==
    LET shift == d.shift + fragment
    IN  IF d.level >= Len(c.internal_nodes_count)
        THEN [decoder |-> [d EXCEPT !.shift = shift], result |-> Panic]
        ELSE LET internal_nodes_count == c.internal_nodes_count[d.level + 1]
                 leaf == d.first_leaf_nr + shift - internal_nodes_count
             IN  IF shift < internal_nodes_count
                 THEN [decoder |-> [shift |-> DegreeMul(c.degree, shift),
                                    first_leaf_nr |-> d.first_leaf_nr + (d.level_size - internal_nodes_count),
                                    level_size |-> DegreeMul(c.degree, internal_nodes_count),
                                    level |-> d.level + 2],
                       result |-> Incomplete]
                 ELSE [decoder |-> [d EXCEPT !.shift = shift],
                       result |-> IF leaf < Len(c.values) THEN Value(c.values[leaf + 1])
                                  ELSE Invalid]

\* Decoder::consume on the decoder state d: the state after the call and the
\* result.  values.get(..).into() is Value for an index below values.len()
\* and Invalid otherwise.
consume(c, d, fragment) ==
    LET shift == d.shift + fragment
    IN  IF d.level >= Len(c.internal_nodes_count)
        THEN [decoder |-> [d EXCEPT !.shift = shift], result |-> Panic]
        ELSE LET internal_nodes_count == c.internal_nodes_count[d.level + 1]
                 leaf == d.first_leaf_nr + shift - internal_nodes_count
             IN  IF shift < internal_nodes_count
                 THEN IF d.level_size < internal_nodes_count
                      THEN [decoder |-> [d EXCEPT !.shift = DegreeMul(c.degree, shift)],
                            result |-> Panic]
                      ELSE [decoder |-> [shift |-> DegreeMul(c.degree, shift),
                                         first_leaf_nr |-> d.first_leaf_nr + (d.level_size - internal_nodes_count),
                                         level_size |-> DegreeMul(c.degree, internal_nodes_count),
                                         level |-> d.level + 1],
                            result |-> Incomplete]
                 ELSE [decoder |-> [d EXCEPT !.shift = shift],
                       result |-> IF leaf < Len(c.values) THEN Value(c.values[leaf + 1])
                                  ELSE Invalid]

\* A consume_checked that does not check.
consume_unchecked(c, d, fragment) == consume(c, d, fragment)

\* A consume_checked that lets the fragment d through.
consume_checked_upto_degree(c, d, fragment) ==
    IF fragment <= as_u32(c.degree) THEN consume(c, d, fragment)
    ELSE [decoder |-> d, result |-> Invalid]

\* Decoder::consume_checked.
consume_checked(c, d, fragment) ==
    IF fragment < as_u32(c.degree) THEN consume(c, d, fragment)
    ELSE [decoder |-> d, result |-> Invalid]

\* --------------------------------------------------- write and read

\* A byte stream is a sequence of numbers in 0..255.

\* The bytes vbyte_write writes for v: 7 low bits with the continuation bit
\* while v >= 128, then the final 7 bits.
RECURSIVE vbyte_write(_)
vbyte_write(v) ==
    IF v >= 128 THEN <<128 + (v % 128)>> \o vbyte_write(v \div 128) ELSE <<v>>

\* The result of a read: ok = FALSE is Err, rest is the rest of the bytes.
ReadErr == [ok |-> FALSE, value |-> 0, rest |-> <<>>]

\* vbyte_read.
RECURSIVE vbyte_read(_)
vbyte_read(bytes) ==
    IF bytes = <<>> THEN ReadErr
    ELSE IF Head(bytes) < 128 THEN [ok |-> TRUE, value |-> Head(bytes), rest |-> Tail(bytes)]
    ELSE LET r == vbyte_read(Tail(bytes))
         IN  IF ~r.ok THEN ReadErr
             ELSE [ok |-> TRUE, value |-> (Head(bytes) - 128) + 128 * r.value, rest |-> r.rest]

\* The implementations of TreeDegree a degree can be held in.
Log2(d) == CHOOSE b \in 0..8 : 2 ^ b = d

DegreeKinds(d) ==
    {"Degree"} \cup (IF \E b \in 1..8 : 2 ^ b = d THEN {"BitsPerFragment"} ELSE {})

\* TreeDegree::write: BitsPerFragment writes the byte b, Degree writes VByte(d).
DegreeWrite(kind, d) ==
    IF kind = "BitsPerFragment" THEN <<Log2(d)>> ELSE vbyte_write(d)

\* TreeDegree::read.
DegreeRead(kind, bytes) ==
    IF kind = "BitsPerFragment"
    THEN IF bytes = <<>> THEN ReadErr
         ELSE [ok |-> TRUE, value |-> 2 ^ Head(bytes), rest |-> Tail(bytes)]
    ELSE vbyte_read(bytes)

\* The concatenation of the VBytes of the entries of s.
RECURSIVE WriteEach(_)
WriteEach(s) == IF s = <<>> THEN <<>> ELSE vbyte_write(Head(s)) \o WriteEach(Tail(s))

\* "for _ in 0..s { v.push(vbyte_read(bytes)?) }": count more values read after v.
RECURSIVE ReadEach(_, _, _)
ReadEach(count, v, bytes) ==
    IF count = 0 THEN [ok |-> TRUE, value |-> v, rest |-> bytes]
    ELSE LET r == vbyte_read(bytes)
         IN  IF ~r.ok THEN ReadErr ELSE ReadEach(count - 1, Append(v, r.value), r.rest)

\* Coding::write_internal_nodes_count.
write_internal_nodes_count(c) ==
    LET l == Len(c.internal_nodes_count) - 1
    IN  vbyte_write(l) \o WriteEach(SubSeq(c.internal_nodes_count, 1, l))

\* A read_internal_nodes_count that returns what it read.
read_internal_nodes_count_as_read(bytes) ==
    LET s == vbyte_read(bytes)
    IN  IF ~s.ok THEN ReadErr ELSE ReadEach(s.value, <<>>, s.rest)

\* Coding::read_internal_nodes_count.
read_internal_nodes_count(bytes) ==
    LET s == vbyte_read(bytes)
    IN  IF ~s.ok THEN ReadErr
        ELSE LET v == ReadEach(s.value, <<>>, s.rest)
             IN  IF ~v.ok THEN ReadErr ELSE [v EXCEPT !.value = Append(@, 0)]

\* The caller's write_value and read_value: one byte per value.
write_value(v) == <<v % 256>>

RECURSIVE WriteEachValue(_)
WriteEachValue(s) == IF s = <<>> THEN <<>> ELSE write_value(Head(s)) \o WriteEachValue(Tail(s))

RECURSIVE ReadEachValue(_, _, _)
ReadEachValue(count, v, bytes) ==
    IF count = 0 THEN [ok |-> TRUE, value |-> v, rest |-> bytes]
    ELSE IF bytes = <<>> THEN ReadErr
    ELSE ReadEachValue(count - 1, Append(v, Head(bytes)), Tail(bytes))

\* Coding::write_values.
write_values(c) == vbyte_write(Len(c.values)) \o WriteEachValue(c.values)

\* Coding::read_values.
read_values(bytes) ==
    LET s == vbyte_read(bytes)
    IN  IF ~s.ok THEN ReadErr ELSE ReadEachValue(s.value, <<>>, s.rest)

\* Coding::write: degree, internal_nodes_count, values.
write(kind, c) ==
    DegreeWrite(kind, c.degree) \o write_internal_nodes_count(c) \o write_values(c)

\* Coding::read.
read(kind, bytes) ==
    LET fragment_size == DegreeRead(kind, bytes)
    IN  IF ~fragment_size.ok THEN ReadErr
        ELSE LET internal_nodes_count == read_internal_nodes_count(fragment_size.rest)
             IN  IF ~internal_nodes_count.ok THEN ReadErr
                 ELSE LET values == read_values(internal_nodes_count.rest)
                      IN  IF ~values.ok THEN ReadErr
                          ELSE [ok |-> TRUE,
                                value |-> [values |-> values.value,
                                           internal_nodes_count |-> internal_nodes_count.value,
                                           degree |-> fragment_size.value],
                                rest |-> values.rest]

\* ------------------------------------- Function::write, read_with_hasher

\* VByte::write_array and VByte::read_array: the length, then the elements.
VByteWriteArray(a) == vbyte_write(Len(a)) \o WriteEach(a)

VByteReadArray(bytes) ==
    LET s == vbyte_read(bytes)
    IN  IF ~s.ok THEN ReadErr ELSE ReadEach(s.value, <<>>, s.rest)

\* The 8 bytes of a 64-bit word as AsIs writes them, and the word of 8 bytes.
WordBytes(w) ==
    [j \in 1..8 |-> SumSeq([b \in 1..8 |-> IF (8 * (j - 1) + b - 1) \in w THEN 2 ^ (b - 1) ELSE 0])]

WordOfBytes(bytes) ==
    {8 * (j - 1) + b : j \in 1..8, b \in 0..7} \cap
    {i \in 0..(WordBits - 1) : (bytes[(i \div 8) + 1] \div (2 ^ (i % 8))) % 2 = 1}

\* AsIs::write_all over the words of the array.
RECURSIVE AsIsWriteAll(_)
AsIsWriteAll(words) ==
    IF words = <<>> THEN <<>> ELSE WordBytes(Head(words)) \o AsIsWriteAll(Tail(words))

\* AsIs::read_n: n words, or Err when the stream is short.
RECURSIVE AsIsReadN(_, _, _)
AsIsReadN(bytes, n, v) ==
    IF n = 0 THEN [ok |-> TRUE, value |-> v, rest |-> bytes]
    ELSE IF Len(bytes) < 8 THEN ReadErr
    ELSE AsIsReadN(SubSeq(bytes, 9, Len(bytes)), n - 1,
                   Append(v, WordOfBytes(SubSeq(bytes, 1, 8))))

\* Function::write.
FunctionWrite(f) == VByteWriteArray(f.level_sizes) \o AsIsWriteAll(f.content)

NoFunctionRead == [done |-> TRUE, ok |-> FALSE, level_sizes |-> <<>>, content |-> <<>>,
                   words_read |-> 0, rest |-> <<>>]

\* A read_with_hasher that reads one word for each level.
read_one_word_per_level(bytes) ==
    LET level_sizes == VByteReadArray(bytes)
    IN  IF ~level_sizes.ok THEN NoFunctionRead
        ELSE LET array_content == AsIsReadN(level_sizes.rest, Len(level_sizes.value), <<>>)
             IN  IF ~array_content.ok THEN NoFunctionRead
                 ELSE [done |-> TRUE, ok |-> TRUE, level_sizes |-> level_sizes.value,
                       content |-> array_content.value,
                       words_read |-> Len(array_content.value), rest |-> array_content.rest]

\* Function::read_with_hasher; the rank index is rebuilt from the content.
read_with_hasher(bytes) ==
    LET level_sizes == VByteReadArray(bytes)
    IN  IF ~level_sizes.ok THEN NoFunctionRead
        ELSE LET array_content_len == SumSeq(level_sizes.value)
                 array_content == AsIsReadN(level_sizes.rest, array_content_len, <<>>)
             IN  IF ~array_content.ok THEN NoFunctionRead
                 ELSE [done |-> TRUE, ok |-> TRUE, level_sizes |-> level_sizes.value,
                       content |-> array_content.value,
                       words_read |-> Len(array_content.value), rest |-> array_content.rest]

\* h.write(&mut buff) on the built function.
WriteFunction ==
    /\ pc = "done"
    /\ ~fn_buff.written
    /\ fn_buff' = [written |-> TRUE, bytes |-> FunctionWrite(fn)]
    /\ UNCHANGED <<conf, num_threads, input, ks, pc, input_size, use_multiple_threads,
                   arrays, hash, lv, fn, probe, live, placed, horizon, read_fn>>

\* Function::read_with_hasher(&mut &buff[..], hasher), hasher being the one of the build.
ReadFunction ==
    /\ fn_buff.written
    /\ ~read_fn.done
    /\ read_fn' = read_with_hasher(fn_buff.bytes)
    /\ UNCHANGED <<conf, num_threads, input, ks, pc, input_size, use_multiple_threads,
                   arrays, hash, lv, fn, probe, live, placed, horizon, fn_buff>>

\* ------------------------------------------------- the uses of a coding

NoIterator == [level_iterator |-> [last_value_index |-> 0, level_size |-> 0, level |-> 0],
               value_index |-> 0, bits |-> 0]

NoDecoder == [shift |-> 0, first_leaf_nr |-> 0, level_size |-> 0, level |-> 0]

\* The coding returned by from_sorted has not been used.
Unused ==
    /\ ~yielded.started
    /\ ~levels_yielded.started
    /\ ~consumed.started
    /\ ~buff.written

\* The fragments the decoder is called with: the digits, the degree and one above.
Fragments == 0..(coding.degree + 1)

\* coding.codes().
Codes ==
    /\ hpc = "done"
    /\ Unused
    /\ codes_it' = CodesIteratorNew(coding)
    /\ yielded' = [started |-> TRUE, ended |-> FALSE, panicked |-> FALSE, items |-> <<>>]
    /\ UNCHANGED <<args, hpc, fs, coding, levels_it, levels_yielded,
                   decoder, consumed, buff, read_coding>>

\* A call of next() on the iterator, up to the first None.
CodesNext ==
    /\ yielded.started
    /\ ~yielded.ended
    /\ LET r == CodesIteratorNext(coding, codes_it)
       IN  /\ codes_it' = r.it
           /\ yielded' = IF r.some THEN [yielded EXCEPT !.items = Append(@, r.item)]
                         ELSE [yielded EXCEPT !.ended = TRUE, !.panicked = r.panic]
    /\ UNCHANGED <<args, hpc, fs, coding, levels_it, levels_yielded,
                   decoder, consumed, buff, read_coding>>

\* coding.levels().
Levels ==
    /\ hpc = "done"
    /\ Unused
    /\ levels_it' = LevelIteratorNew(coding)
    /\ levels_yielded' = [started |-> TRUE, ended |-> FALSE, panicked |-> FALSE, items |-> <<>>]
    /\ UNCHANGED <<args, hpc, fs, coding, codes_it, yielded, decoder, consumed, buff,
                   read_coding>>

\* A call of next() on the iterator over the levels, up to the first None.
LevelsNext ==
    /\ levels_yielded.started
    /\ ~levels_yielded.ended
    /\ LET r == LevelIteratorNext(coding, levels_it)
       IN  /\ levels_it' = r.it
           /\ levels_yielded' =
                IF r.some THEN [levels_yielded EXCEPT !.items = Append(@, r.item)]
                ELSE [levels_yielded EXCEPT !.ended = TRUE, !.panicked = r.panic]
    /\ UNCHANGED <<args, hpc, fs, coding, codes_it, yielded, decoder, consumed, buff,
                   read_coding>>

\* coding.decoder().
NewDecoder ==
    /\ hpc = "done"
    /\ Unused
    /\ decoder' = DecoderNew(coding)
    /\ consumed' = [started |-> TRUE, calls |-> <<>>]
    /\ UNCHANGED <<args, hpc, fs, coding, levels_it, levels_yielded,
                   codes_it, yielded, buff, read_coding>>

\* The decoder is used until a call returns anything but Incomplete.
Decoding ==
    /\ consumed.started
    /\ consumed.calls # <<>> => consumed.calls[Len(consumed.calls)].result = Incomplete

\* decoder.consume(fragment).
Consume(fragment) ==
    /\ Decoding
    /\ LET r == consume(coding, decoder, fragment)
       IN  /\ decoder' = r.decoder
           /\ consumed' = [consumed EXCEPT !.calls =
                             Append(@, [op |-> "consume", fragment |-> fragment,
                                        before |-> decoder, after |-> r.decoder,
                                        result |-> r.result])]
    /\ UNCHANGED <<args, hpc, fs, coding, levels_it, levels_yielded,
                   codes_it, yielded, buff, read_coding>>

\* decoder.consume_checked(fragment).
ConsumeChecked(fragment) ==
    /\ Decoding
    /\ LET r == consume_checked(coding, decoder, fragment)
       IN  /\ decoder' = r.decoder
           /\ consumed' = [consumed EXCEPT !.calls =
                             Append(@, [op |-> "consume_checked", fragment |-> fragment,
                                        before |-> decoder, after |-> r.decoder,
                                        result |-> r.result])]
    /\ UNCHANGED <<args, hpc, fs, coding, levels_it, levels_yielded,
                   codes_it, yielded, buff, read_coding>>

\* coding.write(&mut buff, write_value), the degree held in a TreeDegree of the kind.
Write ==
    /\ hpc = "done"
    /\ Unused
    /\ \E kind \in DegreeKinds(coding.degree) :
         buff' = [written |-> TRUE, kind |-> kind, bytes |-> write(kind, coding)]
    /\ UNCHANGED <<args, hpc, fs, coding, levels_it, levels_yielded,
                   codes_it, yielded, decoder, consumed, read_coding>>

\* Coding::read(&mut &buff[..], read_value).
Read ==
    /\ buff.written
    /\ ~read_coding.done
    /\ LET r == read(buff.kind, buff.bytes)
       IN  read_coding' = [done |-> TRUE, ok |-> r.ok,
                           coding |-> IF r.ok THEN r.value ELSE NoCoding,
                           rest |-> IF r.ok THEN r.rest ELSE <<>>]
    /\ UNCHANGED <<args, hpc, fs, coding, levels_it, levels_yielded,
                   codes_it, yielded, decoder, consumed, buff>>

\* ------------------------------------------------------ specifications

vars == <<conf, num_threads, input, ks, pc, input_size, use_multiple_threads,
          arrays, hash, lv, fn, probe, live, placed, horizon, args, hpc, fs, coding,
          codes_it, yielded, levels_it, levels_yielded, decoder, consumed, buff,
          read_coding, fn_buff, read_fn, retains>>

\* No iterator, no decoder and no stream of the coding exist.
UnusedInit ==
    /\ codes_it = NoIterator
    /\ yielded = [started |-> FALSE, ended |-> FALSE, panicked |-> FALSE, items |-> <<>>]
    /\ levels_it = LevelIteratorNew(NoCoding)
    /\ levels_yielded = [started |-> FALSE, ended |-> FALSE, panicked |-> FALSE, items |-> <<>>]
    /\ decoder = NoDecoder
    /\ consumed = [started |-> FALSE, calls |-> <<>>]
    /\ buff = [written |-> FALSE, kind |-> "Degree", bytes |-> <<>>]
    /\ read_coding = [done |-> FALSE, ok |-> FALSE, coding |-> NoCoding, rest |-> <<>>]

\* No coding is under construction.
CodingIdle ==
    /\ args = [degree |-> 0, values |-> <<>>, freq |-> <<>>]
    /\ hpc = "idle"
    /\ fs = NoLocals
    /\ coding = NoCoding
    /\ UnusedInit

\* No function is under construction.
FmphIdleInit ==
    /\ conf = [relative_level_size |-> 100, cache_threshold |-> 0,
               use_multiple_threads |-> FALSE]
    /\ num_threads = 1
    /\ input = <<>>
    /\ ks = NewKeySet("Vec", "none", <<>>, 0)
    /\ pc = "idle"
    /\ input_size = 0
    /\ use_multiple_threads = FALSE
    /\ arrays = <<>>
    /\ hash = <<>>
    /\ lv = NoLevelLocals
    /\ fn = [level_sizes |-> <<>>, content |-> <<>>]
    /\ probe = NoProbe
    /\ live = {}
    /\ placed = <<>>
    /\ horizon = "stop"
    /\ fn_buff = [written |-> FALSE, bytes |-> <<>>]
    /\ read_fn = [done |-> FALSE, ok |-> FALSE, level_sizes |-> <<>>, content |-> <<>>,
                  words_read |-> 0, rest |-> <<>>]
    /\ retains = <<>>

\* The construction of an FMPH function and a lookup in it.
Init ==
    /\ FmphInit
    /\ CodingIdle

Next ==
    \/ LevelStart /\ UNCHANGED <<codingVars, functionIoVars, keySetVars>>
    \/ AddBitSt /\ UNCHANGED <<codingVars, functionIoVars, keySetVars>>
    \/ \E i \in 1..Len(lv.task) : SyncFetchOrResult(i) /\ UNCHANGED <<codingVars, functionIoVars, keySetVars>>
    \/ \E i \in 1..Len(lv.task) : SyncFetchOrCollision(i) /\ UNCHANGED <<codingVars, functionIoVars, keySetVars>>
    \/ RemoveCollided /\ UNCHANGED <<codingVars, functionIoVars, keySetVars>>
    \/ RetainKeys /\ UNCHANGED <<codingVars, functionIoVars, keySetVars>>
    \/ PushLevel /\ UNCHANGED <<codingVars, functionIoVars, keySetVars>>
    \/ Finish /\ UNCHANGED <<codingVars, functionIoVars, keySetVars>>
    \/ \E key \in Universe : Get(key) /\ UNCHANGED <<codingVars, functionIoVars, keySetVars>>

Spec == Init /\ [][Next]_vars

\* The builder alone, single-threaded on a Vec of keys, followed through any
\* number of levels: beyond MaxLevels the levels are built but not recorded.
\* The thread that runs build_levels keeps running.
LongInit ==
    /\ \E n \in 1..MaxKeys :
         BuilderNew([relative_level_size |-> 100, cache_threshold |-> 0,
                     use_multiple_threads |-> FALSE], 1, [i \in 1..n |-> i],
                    [kind |-> "Vec", inner |-> "none", clone_threshold |-> 0], "forget")
    /\ CodingIdle

LongNext ==
    \/ LevelStart /\ UNCHANGED <<codingVars, functionIoVars, keySetVars>>
    \/ AddBitSt /\ UNCHANGED <<codingVars, functionIoVars, keySetVars>>
    \/ RemoveCollided /\ UNCHANGED <<codingVars, functionIoVars, keySetVars>>
    \/ RetainKeys /\ UNCHANGED <<codingVars, functionIoVars, keySetVars>>
    \/ PushLevel /\ UNCHANGED <<codingVars, functionIoVars, keySetVars>>
    \/ Finish /\ UNCHANGED <<codingVars, functionIoVars, keySetVars>>

FairSpec == LongInit /\ [][LongNext]_vars /\ WF_vars(LongNext)

\* A function built single-threaded from a Vec of keys, then written and read back.
FunctionIoInit ==
    /\ \E rls \in RelativeLevelSizes, n \in 0..MaxKeys :
         BuilderNew([relative_level_size |-> rls, cache_threshold |-> 0,
                     use_multiple_threads |-> FALSE], 1, [i \in 1..n |-> i],
                    [kind |-> "Vec", inner |-> "none", clone_threshold |-> 0], "stop")
    /\ CodingIdle

FunctionIoNext ==
    \/ LevelStart /\ UNCHANGED <<codingVars, functionIoVars, keySetVars>>
    \/ AddBitSt /\ UNCHANGED <<codingVars, functionIoVars, keySetVars>>
    \/ RemoveCollided /\ UNCHANGED <<codingVars, functionIoVars, keySetVars>>
    \/ RetainKeys /\ UNCHANGED <<codingVars, functionIoVars, keySetVars>>
    \/ PushLevel /\ UNCHANGED <<codingVars, functionIoVars, keySetVars>>
    \/ Finish /\ UNCHANGED <<codingVars, functionIoVars, keySetVars>>
    \/ WriteFunction /\ UNCHANGED <<codingVars, keySetVars>>
    \/ ReadFunction /\ UNCHANGED <<codingVars, keySetVars>>

SpecFunctionIo == FunctionIoInit /\ [][FunctionIoNext]_vars

\* A key set of any implementation over the keys 1..n, not used by a builder.
KeySetInit ==
    /\ \E n \in 0..MaxKeys, choice \in KeySetChoices :
         /\ input = [i \in 1..n |-> i]
         /\ ks = NewKeySet(choice.kind, choice.inner, input, choice.clone_threshold)
         /\ live = Range(input)
         /\ placed = [key \in Range(input) |-> NoLevel]
    /\ conf = [relative_level_size |-> 100, cache_threshold |-> 0,
               use_multiple_threads |-> FALSE]
    /\ num_threads = 1
    /\ pc = "idle"
    /\ input_size = keys_len(ks)
    /\ use_multiple_threads = FALSE
    /\ arrays = <<>>
    /\ hash = <<>>
    /\ lv = NoLevelLocals
    /\ fn = [level_sizes |-> <<>>, content |-> <<>>]
    /\ probe = NoProbe
    /\ horizon = "stop"
    /\ fn_buff = [written |-> FALSE, bytes |-> <<>>]
    /\ read_fn = [done |-> FALSE, ok |-> FALSE, level_sizes |-> <<>>, content |-> <<>>,
                  words_read |-> 0, rest |-> <<>>]
    /\ retains = <<>>
    /\ CodingIdle

\* Retain calls with any filters, one after another, on a key set.
KeySetNext ==
    \E op \in RetainOps, keep \in SUBSET Range(input) :
        RetainCall(op, keep) /\ UNCHANGED codingVars

SpecKeySet == KeySetInit /\ [][KeySetNext]_vars

\* Builds, and key sets used outside a build.
BuildOrKeySetInit == Init \/ KeySetInit

BuildOrKeySetNext ==
    \/ Next
    \/ KeySetNext

SpecBuildOrKeySet == BuildOrKeySetInit /\ [][BuildOrKeySetNext]_vars

\* The construction of an FMPH function with any relative_level_size
\* (u16, not 0), from a Vec or a slice with references.
AnyLevelSizeInit ==
    /\ \E c \in [relative_level_size : SmallRelativeLevelSizes \cup RelativeLevelSizes,
                  cache_threshold : CacheThresholds,
                  use_multiple_threads : BOOLEAN],
           threads \in {1, 2}, n \in 0..MaxKeys,
           choice \in [kind : {"Vec", "SliceSourceWithRefs"}, inner : {"none"},
                       clone_threshold : {0}] :
            BuilderNew(c, threads, [i \in 1..n |-> i], choice, "stop")
    /\ CodingIdle

SpecAnyLevelSize == AnyLevelSizeInit /\ [][Next]_vars

\* The construction of a coding by from_sorted.
CodingInit ==
    /\ \E d \in 2..MaxDegree, n \in 1..MaxValues : \E f \in SortedFreqs(n) :
         FromSortedCall(d, f)
    /\ UnusedInit
    /\ FmphIdleInit

CodingNext ==
    \/ TrivialCase /\ UNCHANGED <<fmphVars, useVars>>
    \/ EnterMerge /\ UNCHANGED <<fmphVars, useVars>>
    \/ SelectFirst /\ UNCHANGED <<fmphVars, useVars>>
    \/ AddItem /\ UNCHANGED <<fmphVars, useVars>>
    \/ NextNode /\ UNCHANGED <<fmphVars, useVars>>
    \/ DepthRoot /\ UNCHANGED <<fmphVars, useVars>>
    \/ DepthStep /\ UNCHANGED <<fmphVars, useVars>>
    \/ NewCoding /\ UNCHANGED <<fmphVars, useVars>>
    \/ CountStep /\ UNCHANGED <<fmphVars, useVars>>
    \/ Return /\ UNCHANGED <<fmphVars, useVars>>

SpecCoding == CodingInit /\ [][CodingNext]_vars

\* The construction of a coding followed by one use of it: its codes are
\* iterated, or a decoder is fed fragments, or it is written and read back.
\* The coding is immutable, so the uses do not affect each other.
UseNext ==
    \/ CodingNext
    \/ Codes /\ UNCHANGED fmphVars
    \/ CodesNext /\ UNCHANGED fmphVars
    \/ Levels /\ UNCHANGED fmphVars
    \/ LevelsNext /\ UNCHANGED fmphVars
    \/ NewDecoder /\ UNCHANGED fmphVars
    \/ \E fragment \in Fragments : Consume(fragment) /\ UNCHANGED fmphVars
    \/ \E fragment \in Fragments : ConsumeChecked(fragment) /\ UNCHANGED fmphVars
    \/ Write /\ UNCHANGED fmphVars
    \/ Read /\ UNCHANGED fmphVars

SpecUse == CodingInit /\ [][UseNext]_vars

\* The construction of a coding from a list of values of any length, the
\* empty one included, followed by one use of it.
AnyLengthInit ==
    /\ \E d \in 2..MaxDegree, n \in 0..MaxValues : \E f \in SortedFreqs(n) :
         FromSortedCall(d, f)
    /\ UnusedInit
    /\ FmphIdleInit

SpecAnyLength == AnyLengthInit /\ [][UseNext]_vars

\* The codings of the tests of lib.rs; the values 'a'..'f' are the numbers 1..6.
Frequencies3 == (1 :> 100) @@ (2 :> 50) @@ (3 :> 10)
Frequencies6 == (4 :> 12) @@ (5 :> 11) @@ (6 :> 10) @@ (1 :> 3) @@ (2 :> 2) @@ (3 :> 1)
Frequencies5 == (4 :> 12) @@ (5 :> 11) @@ (1 :> 3) @@ (2 :> 2) @@ (3 :> 1)

TestCodings ==
    {[degree |-> 2, frequencies |-> Frequencies3],
     [degree |-> 4, frequencies |-> Frequencies3],
     [degree |-> 2, frequencies |-> Frequencies6],
     [degree |-> 4, frequencies |-> Frequencies6],
     [degree |-> 3, frequencies |-> Frequencies5]}

TestInit ==
    /\ \E t \in TestCodings : FromFrequenciesCall(t.degree, t.frequencies)
    /\ UnusedInit
    /\ FmphIdleInit

\* A coding of the tests is built by from_frequencies and used.
SpecTests == TestInit /\ [][UseNext]_vars

\* ------------------------------------------------------------ properties

\* The number of leaf positions of the tree internal_nodes_count describes:
\* the sum over the entries k of d * I[k-1] - I[k], with I[-1] = 1.
LeafSlots(c) ==
    SumSeq([k \in 1..Len(c.internal_nodes_count) |->
              c.degree * (IF k = 1 THEN 1 ELSE c.internal_nodes_count[k - 1])
              - c.internal_nodes_count[k]])

\* The leaf positions of the deepest level that hold no value: the children
\* the first internal node lacks, or the whole rest of level 1 in the trivial case.
UnusedSlots(n, d) ==
    IF n <= d THEN d - n ELSE d - FirstTreeDegree(n, d)

\* C10 as stated: the sum over the entries of internal_nodes_count of
\* d * I[k-1] - I[k] equals the number n of values.
C10_LeafSlotsEqualValues ==
    hpc = "done" => LeafSlots(coding) = Len(args.freq)

\* C10, amended: the sum is the number of values plus the number of unused
\* leaf positions of the deepest level; it is n exactly when n >= d and
\* d - 1 divides n - 1.
C10_LeafSlotsAreValuesAndUnused ==
    hpc = "done" =>
        /\ LeafSlots(coding) = Len(args.freq) + UnusedSlots(Len(args.freq), args.degree)
        /\ (LeafSlots(coding) = Len(args.freq)) <=>
              (Len(args.freq) >= args.degree
               /\ (Len(args.freq) - 1) % (args.degree - 1) = 0)

\* A coding of more values than the degree, with an unused leaf position, is built.
C10_Witness ==
    /\ hpc = "done"
    /\ Len(args.freq) > args.degree
    /\ LeafSlots(coding) > Len(args.freq)

\* --------------------------------- properties of the codes and the decoder

\* The codeword of an item of codes(): the fragments base-d digits of bits,
\* most significant first.
Digits(bits, fragments, d) ==
    [j \in 1..fragments |-> (bits \div (d ^ (fragments - j))) % d]

CodeWord(item) == Digits(item.bits, item.fragments, coding.degree)

IsPrefix(a, b) == Len(a) <= Len(b) /\ SubSeq(b, 1, Len(a)) = a

\* The fragments and the results of the calls made on the decoder.
Fed == [k \in 1..Len(consumed.calls) |-> consumed.calls[k].fragment]

Results == [k \in 1..Len(consumed.calls) |-> consumed.calls[k].result]

\* C11: decoder round trip.  For every pair (v, Code{bits, fragments}) of
\* codes(), a fresh decoder fed the digits of the codeword, most significant
\* first, returns Incomplete for each digit but the last and Value(v) for the
\* last: whenever the fragments fed so far are the first k digits of the
\* codeword, the k-th result is Incomplete if k < fragments and Value(v) if
\* k = fragments.
C11_DecoderRoundTrip ==
    hpc = "done" /\ consumed.calls # <<>> =>
        \A k \in 1..Len(codes(coding)) :
            LET item == codes(coding)[k]
                n == Len(consumed.calls)
            IN  IsPrefix(Fed, CodeWord(item)) =>
                    Results[n] = IF n < item.fragments THEN Incomplete ELSE Value(item.value)

\* A codeword of two or more fragments has been fed whole, by consume alone.
C11_Witness ==
    /\ hpc = "done"
    /\ Len(consumed.calls) >= 2
    /\ \A k \in 1..Len(consumed.calls) : consumed.calls[k].op = "consume"
    /\ \E k \in 1..Len(codes(coding)) :
         /\ Fed = CodeWord(codes(coding)[k])
         /\ Results[Len(Results)] = Value(codes(coding)[k].value)

\* C12: codes() yields exactly one codeword per value, and no codeword is a
\* prefix of another (so the codewords are pairwise distinct).
C12_OneCodePerValuePrefixFree ==
    yielded.ended =>
        /\ ~yielded.panicked
        /\ [k \in 1..Len(yielded.items) |-> yielded.items[k].value] = coding.values
        /\ Range(coding.values) = Range(args.values)
        /\ Len(coding.values) = Len(args.values)
        /\ \A i, j \in 1..Len(yielded.items) :
             i # j => ~IsPrefix(CodeWord(yielded.items[i]), CodeWord(yielded.items[j]))

\* The codes of a coding with codewords of different lengths have all been yielded.
C12_Witness ==
    /\ yielded.ended
    /\ \E i, j \in 1..Len(yielded.items) :
         yielded.items[i].fragments < yielded.items[j].fragments

\* The length of the codeword codes() gives to the value v.
CodeLength(v) ==
    LET k == CHOOSE k \in 1..Len(codes(coding)) : codes(coding)[k].value = v
    IN  codes(coding)[k].fragments

\* The weighted length of a length assignment len for the frequencies of the call.
WeightedLength(len) ==
    SumSeq([v \in 1..Len(args.freq) |-> args.freq[v] * len[v]])

\* No optimal code of n values has a codeword longer than LengthBound(n).
LengthBound(n) == IF n > 1 THEN n - 1 ELSE 1

\* The length assignments of the d-ary prefix codes of n values: lengths
\* >= 1 that satisfy the Kraft inequality sum(d^(-len[v])) <= 1.
PrefixCodeLengths(n, d) ==
    {len \in [1..n -> 1..LengthBound(n)] :
        SumSeq([v \in 1..n |-> d ^ (LengthBound(n) - len[v])]) <= d ^ LengthBound(n)}

\* C13: minimum redundancy.  The code lengths from_sorted assigns satisfy
\* the Kraft inequality and minimise the weighted length sum(freq * len)
\* over all d-ary prefix codes of the values.
C13_MinimumRedundancy ==
    hpc = "done" =>
        LET n == Len(args.freq)
            assigned == [v \in 1..n |-> CodeLength(v)]
        IN  /\ assigned \in PrefixCodeLengths(n, args.degree)
            /\ \A len \in PrefixCodeLengths(n, args.degree) :
                 WeightedLength(assigned) <= WeightedLength(len)

\* A coding of values of different frequencies, more than the degree, is built.
C13_Witness ==
    /\ hpc = "done"
    /\ Len(args.freq) > args.degree
    /\ args.freq[1] < args.freq[Len(args.freq)]
    /\ CodeLength(1) > CodeLength(Len(args.freq))

\* C14: the last entry of internal_nodes_count is 0 and every other entry
\* is at least 1: the array contains exactly one zero, at its end.
C14_OneZeroAtEnd ==
    hpc = "done" =>
        LET I == coding.internal_nodes_count
        IN  /\ Len(I) >= 1
            /\ I[Len(I)] = 0
            /\ \A k \in 1..(Len(I) - 1) : I[k] >= 1

\* A coding of three or more levels is built.
C14_Witness ==
    /\ hpc = "done"
    /\ Len(coding.internal_nodes_count) >= 3

\* The number of fragments of the longest codeword codes() yields.
LongestCode ==
    CHOOSE L \in 1..Len(args.freq) :
        /\ \E k \in 1..Len(codes(coding)) : codes(coding)[k].fragments = L
        /\ \A k \in 1..Len(codes(coding)) : codes(coding)[k].fragments <= L

\* C15 as stated: internal_nodes_count has length L + 1, L being the number
\* of fragments of the longest codeword.
C15_LengthIsLongestCodePlusOne ==
    hpc = "done" => Len(coding.internal_nodes_count) = LongestCode + 1

\* C15, amended: internal_nodes_count has length L, one entry for each of
\* the levels 1..L of the tree (the root, at level 0, has no entry).
C15_LengthIsLongestCode ==
    hpc = "done" => Len(coding.internal_nodes_count) = LongestCode

\* A coding whose longest codeword has three or more fragments is built.
C15_Witness ==
    /\ hpc = "done"
    /\ LongestCode >= 3

\* C16 as stated: consume and consume_checked return Invalid whenever the
\* fragment exceeds the degree.
C16_InvalidAboveDegree ==
    \A k \in 1..Len(consumed.calls) :
        consumed.calls[k].fragment > coding.degree => consumed.calls[k].result = Invalid

\* C16, amended: consume_checked returns Invalid whenever the fragment
\* exceeds the degree, from every decoder state reached; consume does not
\* check its fragment.
C16_CheckedInvalidAboveDegree ==
    \A k \in 1..Len(consumed.calls) :
        (consumed.calls[k].op = "consume_checked"
         /\ consumed.calls[k].fragment > coding.degree) => consumed.calls[k].result = Invalid

\* consume_checked is given a fragment above the degree by a decoder that
\* has gone a level down on a valid fragment.
C16_Witness ==
    /\ Len(consumed.calls) = 2
    /\ consumed.calls[1].fragment < coding.degree
    /\ consumed.calls[1].result = Incomplete
    /\ consumed.calls[2].op = "consume_checked"
    /\ consumed.calls[2].fragment > coding.degree

\* C17: with degree 2, consume never returns Invalid for fragments in {0, 1}.
C17_BinaryNeverInvalid ==
    (coding.degree = 2 /\ \A k \in 1..Len(consumed.calls) : consumed.calls[k].fragment \in {0, 1}) =>
        \A k \in 1..Len(consumed.calls) : consumed.calls[k].result # Invalid

\* C18: consume_checked(fragment) with fragment >= d returns Invalid and
\* leaves shift, first_leaf_nr, level_size and level unchanged; with
\* fragment < d it returns what consume(fragment) returns and changes the
\* state as consume(fragment) does.
C18_CheckedRejectsOrConsumes ==
    \A k \in 1..Len(consumed.calls) :
        LET call == consumed.calls[k]
        IN  call.op = "consume_checked" =>
                IF call.fragment >= coding.degree
                THEN call.result = Invalid /\ call.after = call.before
                ELSE [decoder |-> call.after, result |-> call.result]
                         = consume(coding, call.before, call.fragment)

\* consume_checked has gone a level down on a valid fragment and has then
\* rejected the fragment d.
C18_Witness ==
    /\ Len(consumed.calls) = 2
    /\ consumed.calls[1].op = "consume_checked"
    /\ consumed.calls[1].result = Incomplete
    /\ consumed.calls[2].op = "consume_checked"
    /\ consumed.calls[2].fragment = coding.degree
    /\ decoder = consumed.calls[2].before
    /\ decoder.level = 1

\* C19: total_fragments_count() equals the sum of code.fragments over all
\* pairs yielded by codes().
C19_TotalIsSumOfCodeLengths ==
    (yielded.ended /\ ~yielded.panicked) =>
        total_fragments_count(coding)
            = SumSeq([k \in 1..Len(yielded.items) |-> yielded.items[k].fragments])

\* The codes of a coding of more values than the degree have all been yielded.
C19_Witness ==
    /\ yielded.ended
    /\ Len(yielded.items) > coding.degree
    /\ total_fragments_count(coding) > Len(yielded.items)

\* The numbers a stream of VBytes holds.
RECURSIVE VBytes(_)
VBytes(bytes) ==
    IF bytes = <<>> THEN <<>>
    ELSE LET r == vbyte_read(bytes)
         IN  IF ~r.ok THEN <<>> ELSE <<r.value>> \o VBytes(r.rest)

InputKeys == Range(input)

\* The key sources that hold the keys in a Vec or a slice.
VecOrSlice == {"Vec", "SliceMutSource", "SliceSourceWithClones", "SliceSourceWithRefs",
               "SliceSourceWithRefsEmptyCleaning"}

\* rank1(i): the number of ones strictly before position i of the array.
Rank1(content, i) ==
    Cardinality({wb \in UNION {{<<w, b>> : b \in content[w]} : w \in DOMAIN content} :
                    (wb[1] - 1) * WordBits + wb[2] < i})

\* offset(l) = 64 * (level_sizes[0] + ... + level_sizes[l-1])
Offset(l) == WordBits * SumSeq(SubSeq(fn.level_sizes, 1, l))

\* The position of key at the recorded level l (0-based), as the builder computed it.
BuilderIndex(key, l) == index(key, hash[l + 1], Len(arrays[l + 1]) * WordBits)

\* get(key) for the hash values row.
GetWith(row) == get_stats(fn, row, 0, 0)

\* Some hash values of key that agree with the build's.
SomeRow(key) == CHOOSE row \in HashRows(key) : TRUE

\* get(k) is Some for every input key, whatever the hash values of the seeds
\* the build did not use for k, and the values are exactly 0..N-1, no two equal.
Bijection ==
    /\ \A k \in InputKeys : \A row \in HashRows(k) :
          /\ GetWith(row).found
          /\ GetWith(row).value = GetWith(SomeRow(k)).value
    /\ {GetWith(SomeRow(k)).value : k \in InputKeys} = 0..(Len(input) - 1)
    /\ \A k1, k2 \in InputKeys :
          k1 # k2 => GetWith(SomeRow(k1)).value # GetWith(SomeRow(k2)).value

\* C1: for keys held in a Vec or a slice key source, with relative_level_size
\* >= 100, any cache_threshold, one thread or several: once with_conf has
\* returned, get is Some for every input key and the values of the input
\* keys are exactly 0..N-1, no two keys sharing one.
C1_VecSliceBijection ==
    (pc = "done" /\ ~probe.called /\ ks.kind \in VecOrSlice
        /\ conf.relative_level_size >= 100)
    => Bijection

\* A multi-threaded build from a Vec of MaxKeys keys returned after more than
\* one level, and get found an input key at a level after the first.
C1_Witness ==
    /\ pc = "done"
    /\ ks.kind = "Vec"
    /\ use_multiple_threads
    /\ Len(input) = MaxKeys
    /\ probe.called /\ probe.key \in InputKeys /\ probe.found /\ probe.level_nr >= 1

\* C2: for every KeySet implementation, after a retain call (remove_count
\* being the number of 1-bits of the new level array), keys_len() is the
\* number of keys that passed every filter so far.
C2_KeysLenIsRetainedCount ==
    pc = "push" => keys_len(ks) = Cardinality(live)

\* C3: with a DynamicKeySet as the key source, when the build returns every
\* input key has a value and the values are exactly 0..N-1, no two equal.
C3_DynamicBijection ==
    (pc = "done" /\ ~probe.called /\ ks.kind = "DynamicKeySet") => Bijection

\* The number of keys of the level under construction hashed to position i.
HashedTo(i) == Cardinality({j \in 1..Len(lv.bit_indices) : lv.bit_indices[j] = i})

\* C4: in a level built with fphash_sync_add_bit, whatever the interleaving
\* of the two atomic steps of the keys, after fphash_remove_collided bit i of
\* the level array is 1 iff exactly one key of the level hashed to i.
C4_SyncLevelUniqueOccupants ==
    (pc = "retain" /\ lv.sync) =>
        \A i \in 0..(lv.level_size_segments * WordBits - 1) :
            get_bit(lv.array, i) <=> HashedTo(i) = 1

\* A level is built concurrently with a collision and a unique occupant.
C4_Witness ==
    /\ pc = "retain" /\ lv.sync
    /\ \E j1, j2 \in 1..Len(lv.group) : j1 # j2 /\ lv.group[j1] # lv.group[j2]
                                         /\ lv.bit_indices[j1] = lv.bit_indices[j2]
    /\ \E i \in 0..(lv.level_size_segments * WordBits - 1) : get_bit(lv.array, i)

\* Builder::retained for a builder whose arrays are arrs.
RetainedIn(key, arrs) ==
    \A l \in 1..Len(arrs) :
        /\ key \in DOMAIN hash[l]
        /\ ~get_bit(arrs[l], index(key, hash[l], Len(arrs[l]) * WordBits))

\* build_levels of a builder with use_multiple_threads = false, run on the
\* key set k with the hash values of the recorded levels: the arrays, and
\* the input_size it ends with.
RECURSIVE SingleThreadedLevels(_, _, _)
SingleThreadedLevels(k, arrs, size) ==
    IF size = 0 \/ Len(arrs) >= Len(hash) THEN [arrays |-> arrs, input_size |-> size]
    ELSE LET hs == hash[Len(arrs) + 1]
             level_size_segments == ceiling_div(size * conf.relative_level_size, WordBits * 100)
             level_size == level_size_segments * WordBits
             earlier == {key \in InputKeys : RetainedIn(key, arrs)}
             visit == for_each_key(k, earlier)
             bit_indices == [i \in 1..Len(visit) |-> index(visit[i], hs, level_size)]
             array == build_array_for_indices_st(bit_indices, level_size_segments)
             k2 == Retain(k,
                          IF size < conf.cache_threshold THEN "retain_keys_with_indices"
                          ELSE "retain_keys",
                          [key \in Range(visit) |-> ~get_bit(array, index(key, hs, level_size))],
                          [i \in 1..Len(visit) |-> ~get_bit(array, bit_indices[i])],
                          earlier, count_bit_ones(array))
         IN  SingleThreadedLevels(k2, Append(arrs, array), keys_len(k2))

\* C5: a multi-threaded build, whatever its schedule, ends with the level
\* sizes and the words the single-threaded build of the same keys, hash
\* values and configuration produces.
C5_SameAsSingleThreaded ==
    (pc = "done" /\ ~probe.called /\ use_multiple_threads) =>
        LET k0 == NewKeySet(ks.kind, ks.inner, input, ks.clone_threshold)
            st == SingleThreadedLevels(k0, <<>>, keys_len(k0))
        IN  /\ st.input_size = 0
            /\ st.arrays = arrays
            /\ fn.level_sizes = [l \in 1..Len(st.arrays) |-> Len(st.arrays[l])]
            /\ fn.content = Flatten(st.arrays)

\* A multi-threaded build of MaxKeys keys returned after more than one level.
C5_Witness ==
    /\ pc = "done" /\ ~probe.called /\ use_multiple_threads
    /\ Len(input) = MaxKeys
    /\ Len(arrays) >= 2
    /\ \E l \in 1..Len(arrays) : Len(arrays[l]) >= 2

LevelsWithBit ==
    {l \in 0..(Len(arrays) - 1) :
        get_bit(arrays[l + 1], FunctionIndex(probe.row, l, Len(arrays[l + 1]) * WordBits))}

C8_GetNoneOrInRange ==
    (pc = "done" /\ probe.called) =>
        /\ ~probe.found => (probe.level_nr = Len(fn.level_sizes) /\ LevelsWithBit = {})
        /\ probe.found => (0 <= probe.value /\ probe.value < Len(input)
                           /\ probe.level_nr < Len(fn.level_sizes))
        /\ probe.level_nr <= Len(fn.level_sizes)

\* get returned None for a key outside the input after two or more levels,
C8_WitnessNone ==
    /\ pc = "done" /\ probe.called /\ probe.key = OutsideKey
    /\ ~probe.found /\ Len(fn.level_sizes) >= 2

\* C9: the construction always stops: build_levels reaches "no keys remain"
\* after finitely many levels, or stops with a fatal error; it never loops forever.
C9_BuildStops == <>(pc \in {"done", "panicked"})

\* C21: FMPH serialization round trip.  write followed by read_with_hasher
\* with the same hasher yields the same level_sizes and the same words, the
\* number of words read is the sum of level_sizes, nothing is left in the
\* stream, and get returns the same value for every input key.
C21_FunctionWriteReadRoundTrip ==
    read_fn.done =>
        /\ read_fn.ok
        /\ read_fn.level_sizes = fn.level_sizes
        /\ read_fn.content = fn.content
        /\ read_fn.words_read = SumSeq(fn.level_sizes)
        /\ read_fn.rest = <<>>
        /\ \A key \in InputKeys : \A row \in HashRows(key) :
             get_stats([level_sizes |-> read_fn.level_sizes, content |-> read_fn.content],
                       row, 0, 0) = GetWith(row)

\* A function of several levels, one of them two words long, that places a
\* key has been written and read.
C21_Witness ==
    /\ read_fn.done
    /\ Len(fn.level_sizes) >= 2
    /\ \E l \in 1..Len(fn.level_sizes) : fn.level_sizes[l] = 2
    /\ \E key \in InputKeys : \E row \in HashRows(key) : GetWith(row).found

\* The test coding_6sym_1bit is the one run.
Is6Sym1Bit == args.degree = 2 /\ Len(args.freq) = 6

\* C22: the documented example.  from_frequencies with degree 2 on
\* d:12, e:11, f:10, a:3, b:2, c:1 yields values [d,e,f,a,b,c],
\* internal_nodes_count [2,1,1,0], the codes d=(0b01,2), e=(0b10,2),
\* f=(0b11,2), a=(0b001,3), b=(0b0000,4), c=(0b0001,4), the leaf counts
\* [0,3,1,2] of levels() and total_fragments_count 17.
C22_DocumentedExample ==
    Is6Sym1Bit =>
        /\ hpc = "done" =>
             /\ coding.values = <<4, 5, 6, 1, 2, 3>>
             /\ coding.internal_nodes_count = <<2, 1, 1, 0>>
             /\ [k \in 1..Len(levels(coding).items) |-> Len(levels(coding).items[k].values)]
                    = <<0, 3, 1, 2>>
             /\ total_fragments_count(coding) = 17
        /\ yielded.ended =>
             yielded.items = << [value |-> 4, bits |-> 1, fragments |-> 2],
                                [value |-> 5, bits |-> 2, fragments |-> 2],
                                [value |-> 6, bits |-> 3, fragments |-> 2],
                                [value |-> 1, bits |-> 1, fragments |-> 3],
                                [value |-> 2, bits |-> 0, fragments |-> 4],
                                [value |-> 3, bits |-> 1, fragments |-> 4] >>

\* The coding of the example has been built and its codes have been yielded.
C22_Witness ==
    /\ Is6Sym1Bit
    /\ hpc = "done"
    /\ yielded.ended
    /\ Len(yielded.items) = 6

\* The merging pass is about to take a child while an unmerged internal node
\* and an unmerged leaf of the same weight are both left.
Tie ==
    /\ hpc \in {"first", "rest"}
    /\ fs.leafs_begin < fs.len
    /\ fs.internals_begin < fs.next
    /\ fs.freq[fs.internals_begin + 1] = fs.freq[fs.leafs_begin + 1]

\* A step of the merging pass that takes a child (SelectFirst or AddItem).
TakesChild == hpc \in {"first", "rest"} /\ hpc' = "rest" /\ fs'.item # fs.item

\* C23 as stated: on equal weights the internal node is the one taken as the
\* next child, for the first child of a merge and for the following children.
C23_TiesTakeInternal ==
    [][(Tie /\ TakesChild) => fs'.internals_begin = fs.internals_begin + 1]_vars

\* C23: on equal weights of the next unmerged internal node and the next
\* unmerged leaf, the leaf is the one taken as the next child (the internal
\* node is taken only when it weighs strictly less, or no leaf is left), for
\* the first child of a merge and for the following children.
C23_TiesTakeLeaf ==
    [][(Tie /\ TakesChild) => /\ fs'.leafs_begin = fs.leafs_begin + 1
                              /\ fs'.internals_begin = fs.internals_begin]_vars

\* A first child was just taken from the leaves (the node before the internal
\* cursor has no parent in this merge) and weighs as much as the next
\* unmerged internal node.
C23_Witness ==
    /\ hpc = "rest"
    /\ fs.item = 1
    /\ fs.internals_begin < fs.next
    /\ (fs.internals_begin = 0 \/ fs.freq[fs.internals_begin] # fs.next)
    /\ fs.freq[fs.next + 1] = fs.freq[fs.internals_begin + 1]
    /\ args.freq[fs.leafs_begin] = fs.freq[fs.next + 1]

\* a / b rounded up, for a >= 0 and b >= 1.
CeilDiv(a, b) == CHOOSE m \in 0..a : (m - 1) * b < a /\ a <= m * b

\* The inner loop of the merging pass has ended: internal node next has all
\* its children, item of them.
NodeComplete == hpc = "rest" /\ fs.item >= fs.current_tree_degree

\* The merging pass has ended (the outer loop is left).
MergeDone == hpc = "first" /\ fs.next >= fs.internal_nodes_size

\* C24: with n > d the first internal node gets c1 children, 2 <= c1 <= d,
\* every later internal node gets exactly d children, and when the merging
\* pass ends M = ceil((n-1)/(d-1)) internal nodes have been constructed, the
\* leaf cursor is n and the internal cursor is M-1: every leaf and every
\* internal node but the root has been taken once as a child.
C24_MergeConsumesAll ==
    /\ NodeComplete =>
          /\ fs.next = 0 => 2 <= fs.item /\ fs.item <= fs.tree_degree
          /\ fs.next > 0 => fs.item = fs.tree_degree
    /\ MergeDone =>
          LET M == CeilDiv(fs.len - 1, fs.tree_degree - 1)
          IN  /\ fs.next = M
              /\ fs.leafs_begin = fs.len
              /\ fs.internals_begin = M - 1

\* The merging pass has ended for a call whose first internal node got fewer
\* than d children, and more than one internal node was constructed.
C24_Witness ==
    /\ MergeDone
    /\ fs.next >= 2
    /\ (fs.len - 1) % (fs.tree_degree - 1) # 0
    /\ fs.leafs_begin = fs.len

\* The child a step of the merging pass takes comes through the internal cursor.
TakesInternal == TakesChild /\ fs'.internals_begin = fs.internals_begin + 1

\* The child a step of the merging pass takes comes through the leaf cursor.
TakesLeaf == TakesChild /\ fs'.leafs_begin = fs.leafs_begin + 1

\* The first write of the merging pass: freq[0] = freq[0], made with both
\* cursors at 0, which takes leaf 0 as the first child of node 0.
FirstWrite ==
    /\ hpc = "first"
    /\ fs.next = 0
    /\ fs.leafs_begin = 0
    /\ TakesLeaf
    /\ fs'.freq = fs.freq

\* C25 as stated: whenever freq[next] is written the leaf cursor is beyond
\* next; a child taken through the internal cursor is a node constructed
\* before (internal cursor < next); freq[leaf cursor] is read for a child
\* only while leaf cursor < n.
C25_WritesBehindLeafCursor ==
    [][TakesChild => /\ fs.leafs_begin > fs.next
                     /\ TakesInternal => fs.internals_begin < fs.next
                     /\ TakesLeaf => fs.leafs_begin < fs.len]_vars

\* C25: whenever freq[next] is written the leaf cursor is beyond next, except
\* at the first write of the pass, which stores freq[0] in freq[0] and takes
\* that leaf; a child taken through the internal cursor is a node constructed
\* before (internal cursor < next), in the first-child branch and when the
\* leaves are exhausted too; freq[leaf cursor] is read for a child only while
\* leaf cursor < n.
C25_InPlaceReuse ==
    [][TakesChild => /\ fs.leafs_begin > fs.next \/ FirstWrite
                     /\ TakesInternal => fs.internals_begin < fs.next
                     /\ TakesLeaf => fs.leafs_begin < fs.len]_vars

\* An internal node all of whose children so far are internal nodes, taken
\* with the leaves exhausted: the item nodes before the internal cursor have
\* next as their parent.
C25_Witness ==
    /\ hpc = "rest"
    /\ fs.leafs_begin = fs.len
    /\ fs.item >= 2
    /\ fs.internals_begin >= fs.item
    /\ \A j \in 1..fs.item : fs.freq[fs.internals_begin - j + 1] = fs.next

\* The second pass has ended: freq[0..M-1] holds the depths of the internal nodes.
DepthsDone == (hpc = "depth" /\ fs.next < 0) \/ hpc = "count"

\* C26: after the merging pass every internal node i < M-1 has its parent's
\* index in freq[i], with i < freq[i] <= M-1, and the parent indices are
\* non-decreasing in i; the right-to-left second pass reads, for node next,
\* the depth of a node beyond next (already computed); after it the depths
\* are non-increasing in the node index and node 0 is a deepest internal node.
C26_ParentsThenDepths ==
    /\ MergeDone =>
          /\ \A i \in 0..(fs.internal_nodes_size - 2) :
                 i < fs.freq[i + 1] /\ fs.freq[i + 1] <= fs.internal_nodes_size - 1
          /\ \A i, j \in 0..(fs.internal_nodes_size - 2) :
                 i < j => fs.freq[i + 1] <= fs.freq[j + 1]
    /\ (hpc = "depth" /\ fs.next >= 0) =>
          /\ fs.next < fs.freq[fs.next + 1]
          /\ fs.freq[fs.next + 1] <= fs.internal_nodes_size - 1
    /\ DepthsDone =>
          /\ \A i, j \in 0..(fs.internal_nodes_size - 1) :
                 i < j => fs.freq[i + 1] >= fs.freq[j + 1]
          /\ \A i \in 0..(fs.internal_nodes_size - 1) : fs.freq[1] >= fs.freq[i + 1]
          /\ fs.max_depth = fs.freq[1]

\* The second pass has ended on three or more internal nodes of which node 0
\* lies deeper than node 1.
C26_Witness ==
    /\ DepthsDone
    /\ fs.internal_nodes_size >= 3
    /\ fs.freq[1] > fs.freq[2]

\* The number of nodes of the level entry k of internal_nodes_count is about:
\* d times the internal nodes of the level above, the root being alone at its level.
LevelSize(c, k) ==
    c.degree * (IF k = 1 THEN 1 ELSE c.internal_nodes_count[k - 1])

\* C27: for every coding built by from_sorted from n >= 1 values every entry
\* of internal_nodes_count is at most d times the entry before (1 for the
\* root before the first), so level_size - internal_nodes underflows neither
\* in LevelIterator::next nor in Decoder::consume; on every level but the last
\* all the leaf positions carry values, and the last level carries at least
\* one value.
C27_LevelsFullButLast ==
    hpc = "done" =>
        LET I == coding.internal_nodes_count
            L == levels(coding)
        IN  /\ \A k \in 1..Len(I) : I[k] <= LevelSize(coding, k)
            /\ ~L.panic
            /\ \A j \in 1..Len(consumed.calls) : consumed.calls[j].result # Panic
            /\ Len(L.items) = Len(I)
            /\ \A k \in 1..(Len(I) - 1) :
                   Len(L.items[k].values) = LevelSize(coding, k) - I[k]
            /\ Len(L.items[Len(I)].values) >= 1
            /\ Len(L.items[Len(I)].values) <= LevelSize(coding, Len(I)) - I[Len(I)]

\* A decoder has come down to the last level of a coding of two or more
\* levels whose last level has leaf positions without values.
C27_Witness ==
    /\ hpc = "done"
    /\ Len(coding.internal_nodes_count) >= 2
    /\ LeafSlots(coding) > Len(coding.values)
    /\ consumed.started
    /\ decoder.level = Len(coding.internal_nodes_count) - 1

\* C28 as stated: for a value list of any length n >= 0, levels() yields
\* exactly internal_nodes_count.len() items, at every point of the iteration
\* LevelIterator::len() is the number of items still to be yielded, and
\* CodesIterator::len() is the number of codes still to be yielded.
C28_ExactSizeIterators ==
    /\ (levels_yielded.started /\ levels_yielded.ended) =>
          Len(levels_yielded.items) = Len(coding.internal_nodes_count)
    /\ levels_yielded.started =>
          LevelIteratorLen(coding, levels_it) = Len(LevelsFrom(coding, levels_it).items)
    /\ yielded.started =>
          CodesIteratorLen(coding, codes_it) = Len(CodesFrom(coding, codes_it))

\* C29: codes() yields the values in the order of values, with code lengths
\* non-decreasing along that order; the first leaf of the level of the
\* codewords of k+1 fragments gets bits = internal_nodes_count[k], the
\* following leaves of the level get consecutive bits, and every bits is
\* smaller than the size of its level.
C29_CanonicalNumbering ==
    yielded.started =>
        LET items == yielded.items
        IN  \A i \in 1..Len(items) :
              /\ items[i].value = coding.values[i]
              /\ items[i].fragments \in 1..Len(coding.internal_nodes_count)
              /\ i > 1 => items[i - 1].fragments <= items[i].fragments
              /\ IF i = 1 \/ items[i - 1].fragments < items[i].fragments
                 THEN items[i].bits = coding.internal_nodes_count[items[i].fragments]
                 ELSE items[i].bits = items[i - 1].bits + 1
              /\ items[i].bits < LevelSize(coding, items[i].fragments)

\* All codes have been yielded for a coding with a level of two or more
\* leaves next to internal nodes (its first leaf has bits above 0).
C29_Witness ==
    /\ yielded.ended
    /\ \E i \in 2..Len(yielded.items) :
         /\ yielded.items[i - 1].fragments = yielded.items[i].fragments
         /\ yielded.items[i].bits >= 2
    /\ \E i \in 2..Len(yielded.items) :
         yielded.items[i - 1].fragments < yielded.items[i].fragments

\* C30: if n <= d, from_sorted returns internal_nodes_count = [0] and the
\* values of the call reversed, without writing to freq (no local of the
\* passes is set), and codes() gives the i-th value returned (from 0) the
\* codeword of one fragment with bits = i.
C30_TrivialCase ==
    (hpc = "done" /\ Len(args.freq) <= args.degree) =>
        LET n == Len(args.values)
        IN  /\ coding.internal_nodes_count = <<0>>
            /\ coding.values = [j \in 1..n |-> args.values[n + 1 - j]]
            /\ fs = NoLocals
            /\ codes(coding) = [j \in 1..n |->
                                 [value |-> coding.values[j], bits |-> j - 1, fragments |-> 1]]
            /\ yielded.ended => yielded.items = codes(coding)

\* The codes of a coding of two or more values, no more than the degree,
\* have all been yielded.
C30_Witness ==
    /\ hpc = "done"
    /\ Len(args.freq) <= args.degree
    /\ Len(args.freq) >= 2
    /\ yielded.ended
    /\ Len(yielded.items) = Len(args.freq)

\* C31: a fresh decoder fed fragments below d reads internal_nodes_count
\* within its bounds at every call (the j-th call at level j-1); an
\* Incomplete result goes with level + 1; a terminal result (Value or Invalid)
\* leaves the level as it is and shift at or above the internal nodes of the
\* level, and comes after at most internal_nodes_count.len() fragments.
C31_DecoderLevels ==
    (consumed.started /\ \A j \in 1..Len(consumed.calls) :
                            consumed.calls[j].fragment < coding.degree) =>
        LET I == coding.internal_nodes_count
            calls == consumed.calls
        IN  /\ \A j \in 1..Len(calls) :
                  /\ calls[j].before.level = j - 1
                  /\ calls[j].before.level < Len(I)
                  /\ calls[j].result.kind \in {"Incomplete", "Value", "Invalid"}
                  /\ calls[j].result = Incomplete =>
                        calls[j].after.level = calls[j].before.level + 1
                  /\ calls[j].result # Incomplete =>
                        /\ calls[j].after.level = calls[j].before.level
                        /\ calls[j].after.shift >= I[calls[j].before.level + 1]
            /\ decoder.level < Len(I)
            /\ Len(calls) <= Len(I)
            /\ Len(calls) = Len(I) => calls[Len(calls)].result # Incomplete

\* A decoder fed fragments below d has returned a value at the last of three
\* or more levels.
C31_Witness ==
    /\ consumed.started
    /\ Len(consumed.calls) >= 3
    /\ Len(consumed.calls) = Len(coding.internal_nodes_count)
    /\ \A j \in 1..Len(consumed.calls) : consumed.calls[j].fragment < coding.degree
    /\ consumed.calls[Len(consumed.calls)].result.kind = "Value"

\* Every add-bit step of the level under construction has completed.
AllBitsAdded == \A i \in 1..Len(lv.task) : lv.task[i] = "done"

\* A step of fphash_add_bit or fphash_sync_add_bit.
AddBitStep == pc = "add" /\ pc' = "add" /\ lv'.task # lv.task

\* The step that computes the level's array, result AND NOT collision.
SweepStep == lv'.array # lv.array /\ lv'.array # <<>>

\* C32: in a build the sweep of a level (result AND NOT collision) starts
\* only after every add-bit step of the level has completed; the key set is
\* changed (the retention) only after the sweep, on the swept array; the array
\* is pushed only after the retention; and an add-bit step of a level runs
\* only when the arrays of all levels before it have been pushed, the key set
\* standing still.
C32_LevelOrdering ==
    [][/\ SweepStep => pc = "add" /\ AllBitsAdded
       /\ (ks' # ks \/ (pc = "retain" /\ pc' # pc)) =>
             /\ pc = "retain"
             /\ AllBitsAdded
             /\ lv.array = fphash_remove_collided(lv.result, lv.collision)
             /\ arrays' = arrays
       /\ arrays' # arrays =>
             /\ pc = "push"
             /\ ks' = ks
             /\ arrays' = Append(arrays, lv.array)
       /\ AddBitStep =>
             /\ lv.seed = Len(arrays)
             /\ lv.array = <<>>
             /\ ks' = ks
             /\ arrays' = arrays]_vars

\* In the second level of a multi-threaded build one add-bit step has
\* completed and another has not started.
C32_Witness ==
    /\ pc = "add"
    /\ lv.sync
    /\ lv.seed = 1
    /\ Len(arrays) = 1
    /\ \E i, j \in 1..Len(lv.task) : lv.task[i] = "done" /\ lv.task[j] = "todo"

\* The keys the retain call of the level under construction has removed.
RemovedAtLevel == {key \in DOMAIN placed : placed[key] = lv.seed}

\* C33 as stated: at every level of a build over distinct keys the keys
\* removed are those with a 1 at their position in the level's array, the
\* number of 1-bits is the number of keys removed, keys_len() after the retain
\* is keys_len() before it minus count_bit_ones of the array, and the
\* remove_count never exceeds the number of keys (no retain call panics).
C33_RemoveCountExact ==
    /\ pc # "panicked"
    /\ pc = "push" =>
          /\ \A key \in Range(lv.keys) :
                 key \in RemovedAtLevel <=>
                     get_bit(lv.array, index(key, lv.hs, lv.level_size_segments * WordBits))
          /\ Range(for_each_key(ks, live)) = Range(lv.keys) \ RemovedAtLevel
          /\ count_bit_ones(lv.array) = Cardinality(RemovedAtLevel)
          /\ count_bit_ones(lv.array) <= input_size
          /\ keys_len(ks) = input_size - count_bit_ones(lv.array)

\* The retain call of the level returns.
RetainStep == pc = "retain" /\ pc' # pc

\* The key set the key-based retain method would leave where the level
\* calls the index-based one.
KeyBasedRetain ==
    Retain(ks, IF use_multiple_threads THEN "par_retain_keys" ELSE "retain_keys",
           LevelFilter, LevelIndexFilter, RetainedNow, count_bit_ones(lv.array))

\* The key sets a sequence of retain calls went through: AfterCall(j) is the
\* key set call j left, LiveAfter(j) the keys that passed the filters of the
\* calls 1..j.
AfterCall(j) == IF j = Len(retains) THEN ks ELSE retains[j + 1].before

LiveAfter(j) == retains[j].live \cap retains[j].keep

\* The key-based method in the place of an index-based one.
KeyBasedOp(op) ==
    IF op \in {"par_retain_keys", "par_retain_keys_with_indices"}
    THEN "par_retain_keys" ELSE "retain_keys"

\* The key set the key-based retain method leaves in the place of the call c.
KeyBasedCall(c) ==
    LET filter == [key \in Range(input) |-> key \in c.keep]
        order == for_each_key(c.before, c.live)
    IN  Retain(c.before, KeyBasedOp(c.op), filter,
               [i \in 1..Len(order) |-> filter[order[i]]], c.live,
               Cardinality(c.live \ c.keep))

\* C34: at every level the array is the one the add-bit steps give for the
\* bit indices of the keys in the order of map_each_key, on the cached path
\* as on the re-hash path; on the cached path the retain call with indices
\* leaves the keys, in the same order, and the keys_len() that the key-based
\* retain call would leave; and for every implementation and any filter, a
\* retain call with indices, index i standing for the i-th key of
\* map_each_key, leaves what the key-based call leaves.
C34_CachedAsRehashed ==
    [][/\ RetainStep =>
            /\ lv.keys = for_each_key(ks, live)
            /\ lv.bit_indices =
                  [i \in 1..Len(lv.keys) |->
                      index(lv.keys[i], lv.hs, lv.level_size_segments * WordBits)]
            /\ lv.array = build_array_for_indices_st(lv.bit_indices, lv.level_size_segments)
            /\ lv.path = "cached" =>
                  /\ for_each_key(ks', live') = for_each_key(KeyBasedRetain, live')
                  /\ keys_len(ks') = keys_len(KeyBasedRetain)
                  /\ ks'.panicked = KeyBasedRetain.panicked
       /\ retains' # retains =>
            LET expected == KeyBasedCall(retains'[Len(retains')])
            IN  /\ for_each_key(ks', live') = for_each_key(expected, live')
                /\ keys_len(ks') = keys_len(expected)
                /\ ks'.panicked = expected.panicked]_vars

\* A call with indices on a key set that keeps references, after an earlier
\* call, removed a key that map_each_key gives before a key it kept.
C34_Witness ==
    /\ retains # <<>>
    /\ LET c == retains[Len(retains)]
           order == for_each_key(c.before, c.live)
       IN  /\ c.op \in {"retain_keys_with_indices", "par_retain_keys_with_indices"}
           /\ Impl(c.before) = "SliceSourceWithRefsEmptyCleaning"
           /\ c.before.segments # <<>>
           /\ \E a, b \in 1..Len(order) :
                  a < b /\ order[a] \notin c.keep /\ order[b] \in c.keep
    /\ ~ks.panicked

\* The number of positions of seq that hold x.
Occurrences(seq, x) == Cardinality({i \in 1..Len(seq) : seq[i] = x})

IsPermutation(a, b) ==
    /\ Len(a) = Len(b)
    /\ \A x \in Range(a) \cup Range(b) : Occurrences(a, x) = Occurrences(b, x)

\* C35: after each of any sequence of retain calls on a SliceMutSource the
\* slice is a permutation of the original keys, its first keys_len()
\* elements are the keys that passed every filter, each once, every removed
\* key lies at an index >= keys_len(), and the call passed each key that was
\* live before it to the filter exactly once.
C35_SliceMutPrefix ==
    \A j \in 1..Len(retains) :
        LET c == retains[j]
            after == AfterCall(j)
            prefix == SubSeq(after.slice, 1, keys_len(after))
            tests == SliceMutTests(c.before.slice, c.before.len, 0,
                                   [key \in Range(input) |-> key \in c.keep])
        IN  c.before.kind = "SliceMutSource" =>
              /\ ~after.panicked
              /\ IsPermutation(after.slice, input)
              /\ keys_len(after) = Cardinality(LiveAfter(j))
              /\ Range(prefix) = LiveAfter(j)
              /\ \A x \in LiveAfter(j) : Occurrences(prefix, x) = 1
              /\ \A i \in 1..Len(after.slice) :
                     after.slice[i] \notin LiveAfter(j) => i - 1 >= keys_len(after)
              /\ Range(tests) = c.live
              /\ \A x \in c.live : Occurrences(tests, x) = 1

\* Three calls on a SliceMutSource over three keys, each removing one key,
\* the first one a key that is not the last of the slice.
C35_Witness ==
    /\ Len(retains) = 3
    /\ ks.kind = "SliceMutSource"
    /\ Len(input) = 3
    /\ \A j \in 1..3 : Cardinality(LiveAfter(j)) = 3 - j
    /\ input[3] \in LiveAfter(1)
    /\ keys_len(ks) = 0

\* C36: after each of any sequence of retain_keys / par_retain_keys calls
\* on a SliceSourceWithRefs, for_each_key, par_for_each_key and
\* par_map_each_key visit the keys of the original slice that passed every
\* filter, each once and in slice order; segment_begin_index is
\* non-decreasing, starts with 0 and ends with deltas.len(); and a delta of
\* segment s stands for slice index s * 2^16 + delta.
C36_RefsVisitRetained ==
    \A j \in 1..Len(retains) :
        LET c == retains[j]
            after == AfterCall(j)
            sbi == after.segment_begin_index
            expected == SelectSeq(input, LAMBDA key : key \in LiveAfter(j))
        IN  c.before.kind = "SliceSourceWithRefs" =>
              /\ ~after.panicked
              /\ after.has_retained
              /\ keys_len(after) = Len(expected)
              /\ Len(sbi) = NumChunks(after.slice) + 1
              /\ sbi[1] = 0
              /\ sbi[Len(sbi)] = Len(after.deltas)
              /\ \A s \in 1..(Len(sbi) - 1) :
                    /\ sbi[s] <= sbi[s + 1]
                    /\ \A p \in (sbi[s] + 1)..sbi[s + 1] :
                          /\ after.deltas[p] \in 0..(SegmentSize - 1)
                          /\ (s - 1) * SegmentSize + after.deltas[p] < Len(after.slice)
                          /\ after.slice[(s - 1) * SegmentSize + after.deltas[p] + 1]
                                = expected[p]
              /\ for_each_key(after, LiveAfter(j)) = expected
              /\ RefsKeysByChunk(after, 0) = expected

\* Three calls on a SliceSourceWithRefs over two chunks; the first leaves a
\* key of the second chunk and removes a key of the first, the last leaves
\* one key.
C36_Witness ==
    /\ Len(retains) = 3
    /\ ks.kind = "SliceSourceWithRefs"
    /\ NumChunks(ks.slice) = 2
    /\ input[1] \notin LiveAfter(1)
    /\ input[3] \in LiveAfter(3)
    /\ Cardinality(LiveAfter(1)) = 2
    /\ retains[2].op = "par_retain_keys"
    /\ keys_len(ks) = 1

\* The deltas of segment seg_i (0-based) of a SliceSourceWithRefsEmptyCleaning.
SegmentDeltas(k, seg_i) ==
    SubSeq(k.deltas, k.segments[seg_i + 1][1] + 1, k.segments[seg_i + 2][1])

\* C37: after any retain call on a SliceSourceWithRefsEmptyCleaning, the
\* first one included, every segment recorded in segments holds at least one
\* retained key, and for_each_key visits the keys that passed every filter.
C37_NoEmptySegments ==
    \A j \in 1..Len(retains) :
        LET c == retains[j]
            after == AfterCall(j)
        IN  c.before.kind = "SliceSourceWithRefsEmptyCleaning" =>
              /\ ~after.panicked
              /\ after.segments # <<>>
              /\ \A seg_i \in 0..(Len(after.segments) - 2) :
                     SegmentDeltas(after, seg_i) # <<>>
              /\ for_each_key(after, LiveAfter(j))
                    = SelectSeq(input, LAMBDA key : key \in LiveAfter(j))

\* A retain call on ks returns, in a build or outside one.
AnyRetainStep == RetainStep \/ retains' # retains

\* C38: a CachedKeySet that is Dynamic becomes Cached in a retain call
\* exactly if the wrapped key set's keys_len() is below clone_threshold when
\* the call is made, and in no other step; a Cached one stays Cached; and at
\* the switch the vector holds the keys that were retained earlier and pass
\* the filter of the call, each once.
C38_CachedSwitch ==
    [][ks.kind = "CachedKeySet" /\ ~ks'.panicked =>
         /\ ks.cached => ks'.cached
         /\ ~ks.cached /\ ks'.cached =>
               /\ AnyRetainStep
               /\ Range(ks'.vec) = live'
               /\ Len(ks'.vec) = Cardinality(live')
         /\ ~ks.cached /\ AnyRetainStep =>
               (ks'.cached <=> KeysLenOf(ks.inner, ks) < ks.clone_threshold)]_vars

\* A CachedKeySet over a SliceSourceWithRefs stayed Dynamic in its first
\* retain call, which left one key, switched in the second, which kept that
\* key, and went through a third call as Cached.
C38_Witness ==
    /\ Len(retains) = 3
    /\ ks.kind = "CachedKeySet"
    /\ ks.inner = "SliceSourceWithRefs"
    /\ Len(input) = 3
    /\ ~retains[2].before.cached
    /\ keys_len(retains[2].before) = 1
    /\ retains[3].before.cached
    /\ retains[3].before.vec # <<>>
    /\ ks.cached
    /\ ~ks.panicked

\* The number of keys that are input of level s (0-based): those no earlier
\* level placed.
LevelInputSize(s) ==
    Cardinality({key \in Range(input) : placed[key] = NoLevel \/ placed[key] >= s})

\* C39 as stated: no level is built with a level size computed from a
\* relative_level_size below 100.
C39_SmallSizeRejected ==
    conf.relative_level_size < 100 => arrays = <<>> /\ lv = NoLevelLocals

\* C39, amended: a relative_level_size from 1 to 99 is not rejected; the
\* level is started whenever keys remain, and every level built has
\* ceil(input keys of the level * relative_level_size / (64 * 100))
\* 64-bit segments, as for the values from 100 on.
C39_SmallSizeBuilt ==
    /\ pc # "panicked"
    /\ pc = "loop" /\ input_size # 0 /\ Len(arrays) < MaxLevels => ENABLED LevelStart
    /\ \A s \in 1..Len(arrays) :
          LET product == LevelInputSize(s - 1) * conf.relative_level_size
          IN  /\ Len(arrays[s]) >= 1
              /\ Len(arrays[s]) * WordBits * 100 >= product
              /\ (Len(arrays[s]) - 1) * WordBits * 100 < product

\* A build of three keys with relative_level_size below 100 ended with two
\* levels or more.
C39_Witness ==
    /\ conf.relative_level_size < 100
    /\ pc = "done"
    /\ Len(input) = 3
    /\ Len(arrays) >= 2
    /\ live = {}

====
